---- MODULE Spec2Model ----
(***************************************************************************)
(* Verification model of the AWS ontology tooling:                         *)
(*   - the transitive subclass helper of tests/test_ontology_quality.py,   *)
(*   - the format synchronisation CLI tools/sync_formats.py together with  *)
(*     the loader of utils/common.py and the interrupt wrapper of          *)
(*     utils/cli_common.py,                                                *)
(*   - the consistency rules of tests/test_ontology_quality.py, the        *)
(*     version test of tests/test_format_sync.py and the fixture of        *)
(*     tests/base_test.py,                                                 *)
(*   - the task scheduler automation/schedule_monitoring.py,               *)
(*   - the CloudFormation monitor of tools/monitor_aws_changes.py,         *)
(*   - the configuration classes of utils/config_validation.py.            *)
(***************************************************************************)
EXTENDS Integers, Sequences, FiniteSets, TLC

VARIABLES
    \* ---- transitive subclass helper ----
    sgraph,     \* the rdfs:subClassOf triples of self.graph, as <<sub, super>> pairs
    source,     \* the subclass argument of the outermost call
    target,     \* the superclass argument (the same in every recursive call)
    stack,      \* the Python call stack of _is_subclass_of: one frame per active call
    status,     \* "idle" | "running" | "returned" | "raised"
    ret,        \* the boolean returned by the outermost call (when status = "returned")
    \* ---- format synchronisation CLI ----
    fs,         \* the file system: path -> content
    fsStart,    \* the file system as it was when the current run of the CLI began
    pc,         \* "shell" (not started) | "prompt" (blocked in input()) | "exited"
    run,        \* what the current run did: its arguments and the values its calls returned
    exit_code,  \* the process exit status (when pc = "exited")
    out,        \* the messages printed or logged by the current run, in order
    calls,      \* the rdflib calls made by check_sync_status in the current run, in order
    prev,       \* the conversion made by the previous run, if it made one
    \* ---- graph loader ----
    loaded,     \* the last call of load_ontology_graph: its path and what it returned
    \* ---- consistency rules (the test methods) ----
    ograph,       \* self.graph: the triples of the loaded ontology that the rules read
    ograph2,      \* the graph parsed from the OWL file, for the two-file tests
    extraClasses, \* how many further classes, each with label and comment, the ontology has
    combined,     \* self.combined_graph, once load_combined_graph has built it
    report,       \* the outcome of the last rule run: its failed assertion and what it names
    \* ---- automation/schedule_monitoring.py ----
    cfile,        \* the configuration file given to OntologyScheduler
    config,       \* self.config, as _load_config returned it
    daemon,       \* run_daemon: "running", "stopped" by an exception, "interrupted"
    last,         \* what the last task did: notifications, SMTP, escaped exception
    smtpEver,     \* an SMTP connection was opened by some task so far
    \* ---- tools/monitor_aws_changes.py ----
    cache,        \* the file cf_resources_cache.json
    mresult,      \* the last call of monitor_cloudformation_resources and its result
    \* ---- utils/config_validation.py ----
    appcfg,       \* an AppConfig c
    cdata,        \* a dictionary given to AppConfig.from_dict
    cresult       \* the AppConfig the last from_dict call returned

subVars == <<sgraph, source, target, stack, status, ret>>
syncVars == <<fs, fsStart, pc, run, exit_code, out, calls, prev>>
loadVars == <<loaded>>
checkVars == <<ograph, ograph2, extraClasses, combined, report>>
schedVars == <<cfile, config, daemon, last, smtpEver>>
monVars == <<cache, mresult>>
cfgVars == <<appcfg, cdata, cresult>>
toolVars == <<schedVars, monVars, cfgVars>>

vars == <<sgraph, source, target, stack, status, ret,
          fs, fsStart, pc, run, exit_code, out, calls, prev, loaded,
          ograph, ograph2, extraClasses, combined, report,
          cfile, config, daemon, last, smtpEver, cache, mresult,
          appcfg, cdata, cresult>>

----------------------------------------------------------------------------
(* Bounds *)

NumNodes == 3
MaxEdges == 3
\* Stand-in for the interpreter's recursion limit (1000 by default): a call that
\* would make the stack deeper raises RecursionError.
RecursionLimit == 5

Nodes == 1..NumNodes

----------------------------------------------------------------------------
(* RDF graphs and files *)

\* Triples are <<subject, predicate, object>>.  BNodes are blank nodes; the
\* predicate "x:" stands for a URI that cannot be split into namespace and local
\* name, which the RDF/XML serialiser refuses to write.
BNodes == {"_1", "_2"}
Unsplittable == {"x:"}

TripleUniverse ==
    { <<"a", "p", "b">>,
      <<"a", "p", "_1">>, <<"a", "p", "_2">>,
      <<"_1", "q", "b">>, <<"_2", "q", "b">>,
      <<"a", "x:", "b">> }

MaxTriples == 2

Graphs == {g \in SUBSET TripleUniverse : Cardinality(g) <= MaxTriples}
XmlGraphs == {g \in Graphs : \A t \in g : t[2] \notin Unsplittable}

\* The bijections of the blank-node labels.
Perms == {pi \in [BNodes -> BNodes] : \A x, y \in BNodes : pi[x] = pi[y] => x = y}

RenameTerm(x, pi) == IF x \in BNodes THEN pi[x] ELSE x
Rename(g, pi) == { <<RenameTerm(t[1], pi), t[2], RenameTerm(t[3], pi)>> : t \in g }

\* rdflib.compare.isomorphic(g1, g2): equality of the canonical forms, where the
\* canonical form of a graph is independent of its blank-node labels.
to_isomorphic(g) == {Rename(g, pi) : pi \in Perms}
isomorphic(g1, g2) == to_isomorphic(g1) = to_isomorphic(g2)

\* A file is missing, unparseable ("garbage"), or holds a graph in one format.
Content(kind, g) == [kind |-> kind, g |-> g]
Missing == Content("missing", {})
Garbage == Content("garbage", {})

TTL_FORMAT == "turtle"
XML_FORMAT == "xml"

\* get_ontology_files(): the fixed paths under the project root.  ArgPath is a
\* path passed with --owl that is not the default one.
TtlPath == "ontology/aws.ttl"
OwlPath == "ontology/aws.owl"
ArgPath == "other.owl"
Paths == {TtlPath, OwlPath, ArgPath}

\* Graph().parse(path, format): raises for a missing or malformed file; otherwise
\* yields the file's triples with freshly labelled blank nodes.
ParseOutcomes(c, fmt) ==
    IF c.kind = "missing" THEN {[exc |-> "FileNotFoundError", g |-> {}]}
    ELSE IF c.kind # fmt THEN {[exc |-> "ParserError", g |-> {}]}
    ELSE {[exc |-> "none", g |-> Rename(c.g, pi)] : pi \in Perms}

\* graph.serialize(format): the RDF/XML serialiser raises on a predicate it
\* cannot turn into a qualified name.
Serialize(g, fmt) ==
    IF fmt = XML_FORMAT /\ \E t \in g : t[2] \in Unsplittable
    THEN [exc |-> "ValueError", c |-> Garbage]
    ELSE [exc |-> "none", c |-> Content(fmt, g)]

\* with open(path, 'w') as f: f.write(text).  open() may fail (file untouched);
\* write() may fail after open() truncated the file (file left unparseable).
WriteOutcomes(f, path, c) ==
    { [exc |-> "none", fs |-> [f EXCEPT ![path] = c]],
      [exc |-> "OSError", fs |-> f],
      [exc |-> "OSError", fs |-> [f EXCEPT ![path] = Garbage]] }

Msg(m, a, b) == [msg |-> m, owl |-> a, ttl |-> b]

----------------------------------------------------------------------------
(* utils/common.py: load_ontology_graph *)

\* Every exception of the parse is caught, logged and turned into None.
MutLoadReturnsEmptyGraph(f, path, fmt) ==
    { [kind |-> "graph", g |-> r.g, exc |-> r.exc] : r \in ParseOutcomes(f[path], fmt) }
load_ontology_graph(f, path, fmt) ==
    { [kind |-> IF r.exc = "none" THEN "graph" ELSE "None",
       g    |-> r.g,
       exc  |-> r.exc] : r \in ParseOutcomes(f[path], fmt) }

----------------------------------------------------------------------------
(* tools/sync_formats.py *)

\* The body shared by convert_ttl_to_owl and convert_owl_to_ttl: load, serialise,
\* write; any exception is caught and reported, and the function returns False.
MutConvertOpensTargetFirst(f, src, srcFmt, dst, dstFmt) ==
    UNION { IF l.kind = "None"
            THEN { [ok |-> FALSE, fs |-> [f EXCEPT ![dst] = Garbage],
                    out |-> <<Msg("load_error", 0, 0)>>] }
            ELSE IF Serialize(l.g, dstFmt).exc # "none"
            THEN { [ok |-> FALSE, fs |-> f, out |-> <<Msg("convert_failed", 0, 0)>>] }
            ELSE { [ok  |-> w.exc = "none",
                    fs  |-> w.fs,
                    out |-> IF w.exc = "none"
                            THEN <<Msg("converted", 0, 0)>>
                            ELSE <<Msg("convert_failed", 0, 0)>>]
                   : w \in WriteOutcomes(f, dst, Serialize(l.g, dstFmt).c) }
          : l \in load_ontology_graph(f, src, srcFmt) }
ConvertOutcomes(f, src, srcFmt, dst, dstFmt) ==
    UNION { IF l.kind = "None"
            THEN { [ok |-> FALSE, fs |-> f, out |-> <<Msg("load_error", 0, 0)>>] }
            ELSE IF Serialize(l.g, dstFmt).exc # "none"
            THEN { [ok |-> FALSE, fs |-> f, out |-> <<Msg("convert_failed", 0, 0)>>] }
            ELSE { [ok  |-> w.exc = "none",
                    fs  |-> w.fs,
                    out |-> IF w.exc = "none"
                            THEN <<Msg("converted", 0, 0)>>
                            ELSE <<Msg("convert_failed", 0, 0)>>]
                   : w \in WriteOutcomes(f, dst, Serialize(l.g, dstFmt).c) }
          : l \in load_ontology_graph(f, src, srcFmt) }

MutConvertTtlToOwlWritesTurtle(f, ttl_file, owl_file) ==
    ConvertOutcomes(f, ttl_file, TTL_FORMAT, owl_file, TTL_FORMAT)
convert_ttl_to_owl(f, ttl_file, owl_file) ==
    ConvertOutcomes(f, ttl_file, TTL_FORMAT, owl_file, XML_FORMAT)

convert_owl_to_ttl(f, owl_file, ttl_file) ==
    ConvertOutcomes(f, owl_file, XML_FORMAT, ttl_file, TTL_FORMAT)

\* check_sync_status: parse both files, compare the sizes, then test isomorphism.
\* `calls` lists the rdflib calls in the order they are made.
MutCheckIsomorphismFirst(f, owl_file, ttl_file) ==
    UNION { IF po.exc # "none"
            THEN { [ok |-> FALSE, out |-> <<Msg("check_failed", 0, 0)>>,
                    calls |-> <<"parse_owl">>] }
            ELSE { IF pt.exc # "none"
                   THEN [ok |-> FALSE, out |-> <<Msg("check_failed", 0, 0)>>,
                         calls |-> <<"parse_owl", "parse_ttl">>]
                   ELSE IF ~isomorphic(po.g, pt.g)
                   THEN [ok |-> FALSE,
                         out |-> IF Cardinality(po.g) # Cardinality(pt.g)
                                 THEN <<Msg("different_counts",
                                            Cardinality(po.g), Cardinality(pt.g))>>
                                 ELSE <<Msg("not_equivalent", 0, 0)>>,
                         calls |-> <<"parse_owl", "parse_ttl", "isomorphic">>]
                   ELSE [ok |-> TRUE,
                         out |-> <<Msg("synchronized",
                                       Cardinality(po.g), Cardinality(pt.g))>>,
                         calls |-> <<"parse_owl", "parse_ttl", "isomorphic">>]
                   : pt \in ParseOutcomes(f[ttl_file], "turtle") }
          : po \in ParseOutcomes(f[owl_file], "xml") }
MutCheckCountsOnly(f, owl_file, ttl_file) ==
    UNION { IF po.exc # "none"
            THEN { [ok |-> FALSE, out |-> <<Msg("check_failed", 0, 0)>>,
                    calls |-> <<"parse_owl">>] }
            ELSE { IF pt.exc # "none"
                   THEN [ok |-> FALSE, out |-> <<Msg("check_failed", 0, 0)>>,
                         calls |-> <<"parse_owl", "parse_ttl">>]
                   ELSE IF Cardinality(po.g) # Cardinality(pt.g)
                   THEN [ok |-> FALSE,
                         out |-> <<Msg("different_counts",
                                       Cardinality(po.g), Cardinality(pt.g))>>,
                         calls |-> <<"parse_owl", "parse_ttl">>]
                   ELSE [ok |-> TRUE,
                         out |-> <<Msg("synchronized",
                                       Cardinality(po.g), Cardinality(pt.g))>>,
                         calls |-> <<"parse_owl", "parse_ttl">>]
                   : pt \in ParseOutcomes(f[ttl_file], "turtle") }
          : po \in ParseOutcomes(f[owl_file], "xml") }
check_sync_status(f, owl_file, ttl_file) ==
    UNION { IF po.exc # "none"
            THEN { [ok |-> FALSE, out |-> <<Msg("check_failed", 0, 0)>>,
                    calls |-> <<"parse_owl">>] }
            ELSE { IF pt.exc # "none"
                   THEN [ok |-> FALSE, out |-> <<Msg("check_failed", 0, 0)>>,
                         calls |-> <<"parse_owl", "parse_ttl">>]
                   ELSE IF Cardinality(po.g) # Cardinality(pt.g)
                   THEN [ok |-> FALSE,
                         out |-> <<Msg("different_counts",
                                       Cardinality(po.g), Cardinality(pt.g))>>,
                         calls |-> <<"parse_owl", "parse_ttl">>]
                   ELSE IF ~isomorphic(po.g, pt.g)
                   THEN [ok |-> FALSE, out |-> <<Msg("not_equivalent", 0, 0)>>,
                         calls |-> <<"parse_owl", "parse_ttl", "isomorphic">>]
                   ELSE [ok |-> TRUE,
                         out |-> <<Msg("synchronized",
                                       Cardinality(po.g), Cardinality(pt.g))>>,
                         calls |-> <<"parse_owl", "parse_ttl", "isomorphic">>]
                   : pt \in ParseOutcomes(f[ttl_file], "turtle") }
          : po \in ParseOutcomes(f[owl_file], "xml") }

ActionNames == {"check", "ttl-to-owl", "owl-to-ttl", "sync"}

\* What input().strip() can yield: the two valid answers, another answer, nothing.
Answers == {"1", "2", "3", ""}

Flag(b) == IF b THEN "true" ELSE "false"

NoRun ==
    [action |-> "none", arg |-> OwlPath, blocked |-> FALSE, checked |-> "none",
     converted |-> "none", choice |-> "none", interrupted |-> FALSE,
     crashed |-> FALSE]

NoPrev == [action |-> "none", orig |-> {}]

\* Line 198: sys.exit(0 if success else 1)
MutExitStatusAlwaysZero(success) == 0
ExitStatus(success) == IF success THEN 0 ELSE 1

\* Lines 190-196: the dispatch on the answer to the prompt.
MutSyncChoiceSwapped(f, choice, ttl_file, owl_file) ==
    IF choice = "2"
    THEN { [ok |-> r.ok, fs |-> r.fs, out |-> r.out, converted |-> Flag(r.ok)]
           : r \in convert_ttl_to_owl(f, ttl_file, owl_file) }
    ELSE IF choice = "1"
    THEN { [ok |-> r.ok, fs |-> r.fs, out |-> r.out, converted |-> Flag(r.ok)]
           : r \in convert_owl_to_ttl(f, owl_file, ttl_file) }
    ELSE { [ok |-> FALSE, fs |-> f, out |-> <<Msg("invalid_choice", 0, 0)>>,
            converted |-> "none"] }
sync_choice(f, choice, ttl_file, owl_file) ==
    IF choice = "1"
    THEN { [ok |-> r.ok, fs |-> r.fs, out |-> r.out, converted |-> Flag(r.ok)]
           : r \in convert_ttl_to_owl(f, ttl_file, owl_file) }
    ELSE IF choice = "2"
    THEN { [ok |-> r.ok, fs |-> r.fs, out |-> r.out, converted |-> Flag(r.ok)]
           : r \in convert_owl_to_ttl(f, owl_file, ttl_file) }
    ELSE { [ok |-> FALSE, fs |-> f, out |-> <<Msg("invalid_choice", 0, 0)>>,
            converted |-> "none"] }

\* utils/cli_common.py: the wrapper around main.  KeyboardInterrupt becomes exit
\* status 130; any other exception leaves the wrapper and the interpreter ends
\* the process with a traceback and status 1.
MutHandleInterruptUncaught(exc) ==
    [code |-> 1, crashed |-> TRUE, out |-> <<Msg("traceback", 0, 0)>>]
handle_keyboard_interrupt(exc) ==
    IF exc = "KeyboardInterrupt"
    THEN [code |-> 130, crashed |-> FALSE, out |-> <<Msg("cancelled", 0, 0)>>]
    ELSE [code |-> 1, crashed |-> TRUE, out |-> <<Msg("traceback", 0, 0)>>]

\* main, lines 149-198, from the command line to sys.exit or to the input() call.
\* The existence test reads the --owl path; the actions use get_ontology_files().
main(act, arg) ==
    /\ pc = "shell"
    /\ IF act \in {"check", "owl-to-ttl", "sync"} /\ fs[arg].kind = "missing"
       THEN /\ pc' = "exited"
            /\ exit_code' = 1
            /\ out' = <<Msg("owl_not_found", 0, 0)>>
            /\ run' = [NoRun EXCEPT !.action = act, !.arg = arg, !.blocked = TRUE]
            /\ UNCHANGED <<fs, calls>>
       ELSE \/ /\ act = "check"
               /\ \E r \in check_sync_status(fs, OwlPath, TtlPath) :
                     /\ pc' = "exited"
                     /\ exit_code' = ExitStatus(r.ok)
                     /\ out' = r.out
                     /\ calls' = r.calls
                     /\ run' = [NoRun EXCEPT !.action = act, !.arg = arg,
                                             !.checked = Flag(r.ok)]
                     /\ UNCHANGED fs
            \/ /\ act = "ttl-to-owl"
               /\ \E r \in convert_ttl_to_owl(fs, TtlPath, OwlPath) :
                     /\ pc' = "exited"
                     /\ exit_code' = ExitStatus(r.ok)
                     /\ out' = r.out
                     /\ fs' = r.fs
                     /\ run' = [NoRun EXCEPT !.action = act, !.arg = arg,
                                             !.converted = Flag(r.ok)]
                     /\ UNCHANGED calls
            \/ /\ act = "owl-to-ttl"
               /\ \E r \in convert_owl_to_ttl(fs, OwlPath, TtlPath) :
                     /\ pc' = "exited"
                     /\ exit_code' = ExitStatus(r.ok)
                     /\ out' = r.out
                     /\ fs' = r.fs
                     /\ run' = [NoRun EXCEPT !.action = act, !.arg = arg,
                                             !.converted = Flag(r.ok)]
                     /\ UNCHANGED calls
            \/ /\ act = "sync"
               /\ \E r \in check_sync_status(fs, OwlPath, TtlPath) :
                     /\ calls' = r.calls
                     /\ run' = [NoRun EXCEPT !.action = act, !.arg = arg,
                                             !.checked = Flag(r.ok)]
                     /\ IF r.ok
                        THEN /\ pc' = "exited"
                             /\ exit_code' = ExitStatus(TRUE)
                             /\ out' = r.out \o <<Msg("already_synchronized", 0, 0)>>
                        ELSE /\ pc' = "prompt"
                             /\ out' = r.out \o <<Msg("prompt", 0, 0)>>
                             /\ UNCHANGED exit_code
                     /\ UNCHANGED fs
    /\ UNCHANGED <<fsStart, prev>>

\* Lines 188-198: input() returned an answer.
SyncAnswer(choice) ==
    /\ pc = "prompt"
    /\ \E r \in sync_choice(fs, choice, TtlPath, OwlPath) :
          /\ fs' = r.fs
          /\ out' = out \o r.out
          /\ exit_code' = ExitStatus(r.ok)
          /\ run' = [run EXCEPT !.choice = IF choice \in {"1", "2"} THEN choice ELSE "other",
                                !.converted = r.converted]
    /\ pc' = "exited"
    /\ UNCHANGED <<fsStart, calls, prev>>

\* Line 188: input() raises EOFError when standard input is at end of file.
SyncAnswerEOF ==
    /\ pc = "prompt"
    /\ pc' = "exited"
    /\ exit_code' = handle_keyboard_interrupt("EOFError").code
    /\ out' = out \o handle_keyboard_interrupt("EOFError").out
    /\ run' = [run EXCEPT !.choice = "eof",
                          !.crashed = handle_keyboard_interrupt("EOFError").crashed]
    /\ UNCHANGED <<fs, fsStart, calls, prev>>

\* Ctrl-C while main waits in input().
SyncAnswerInterrupt ==
    /\ pc = "prompt"
    /\ pc' = "exited"
    /\ exit_code' = handle_keyboard_interrupt("KeyboardInterrupt").code
    /\ out' = out \o handle_keyboard_interrupt("KeyboardInterrupt").out
    /\ run' = [run EXCEPT !.interrupted = TRUE,
                          !.crashed = handle_keyboard_interrupt("KeyboardInterrupt").crashed]
    /\ UNCHANGED <<fs, fsStart, calls, prev>>

\* Ctrl-C while main is still parsing its arguments or loading the files.
MainInterrupt(act, arg) ==
    /\ pc = "shell"
    /\ pc' = "exited"
    /\ exit_code' = handle_keyboard_interrupt("KeyboardInterrupt").code
    /\ out' = handle_keyboard_interrupt("KeyboardInterrupt").out
    /\ run' = [NoRun EXCEPT !.action = act, !.arg = arg, !.interrupted = TRUE]
    /\ UNCHANGED <<fs, fsStart, calls, prev>>

\* The process has ended; the tool is started again on the files as they are now.
NextRun ==
    /\ pc = "exited"
    /\ pc' = "shell"
    /\ fsStart' = fs
    /\ prev' = IF run.converted = "true"
               THEN IF run.action = "ttl-to-owl" \/ run.choice = "1"
                    THEN [action |-> "ttl-to-owl", orig |-> fsStart[TtlPath].g]
                    ELSE [action |-> "owl-to-ttl", orig |-> fsStart[OwlPath].g]
               ELSE NoPrev
    /\ run' = NoRun
    /\ exit_code' = 0
    /\ out' = <<>>
    /\ calls' = <<>>
    /\ UNCHANGED fs

InitialFiles ==
    { f \in [Paths -> {Missing, Garbage}
                       \cup {Content(TTL_FORMAT, g) : g \in Graphs}
                       \cup {Content(XML_FORMAT, g) : g \in XmlGraphs}] :
        /\ f[TtlPath].kind \in {"missing", "garbage", TTL_FORMAT}
        /\ f[OwlPath].kind \in {"missing", "garbage", XML_FORMAT}
        /\ f[ArgPath] \in {Missing, Content(XML_FORMAT, {})} }

SyncVarsIdle ==
    /\ fs = [p \in Paths |-> Missing]
    /\ fsStart = fs
    /\ pc = "shell"
    /\ run = NoRun
    /\ exit_code = 0
    /\ out = <<>>
    /\ calls = <<>>
    /\ prev = NoPrev

LoadVarsIdle == loaded = [path |-> OwlPath, fmt |-> XML_FORMAT, kind |-> "not_called", g |-> {}]

----------------------------------------------------------------------------
(* The ontology graph read by the consistency rules *)

\* Terms are named by short strings; UriText gives the text of a term's URI as
\* its '#'-separated segments, each a sequence of characters, so that
\* str(uri).split('#') is the sequence itself.
AwsNs == <<"h", "t", "t", "p">>
XsdNs == <<"h", "t", "t", "p", "x", "s", "d">>

UriText(t) ==
    CASE t = "Ec2Instance" -> <<AwsNs, <<"E", "c", "2">>>>
      [] t = "ec2Instance" -> <<AwsNs, <<"e", "c", "2">>>>
      [] t = "2fa"         -> <<AwsNs, <<"2", "f", "a">>>>
      [] t = "aws#"        -> <<AwsNs, <<>>>>
      [] t = "Bucket"      -> <<AwsNs, <<"B", "u">>>>
      [] t = "Vpc"         -> <<AwsNs, <<"V", "p", "c">>>>
      [] t = "hasRegion"   -> <<AwsNs, <<"h", "a", "s">>>>
      [] t = "regionOf"    -> <<AwsNs, <<"r", "e", "g">>>>
      [] t = "contains"    -> <<AwsNs, <<"c", "o", "n">>>>
      [] t = "containedBy" -> <<AwsNs, <<"c", "b", "y">>>>
      [] t = "uses"        -> <<AwsNs, <<"u", "s", "e", "s">>>>
      [] t = "monitors"    -> <<AwsNs, <<"m", "o", "n">>>>
      [] t = "size"        -> <<AwsNs, <<"s", "i", "z", "e">>>>
      [] t = "path"        -> <<AwsNs, <<"p", "a", "t", "h">>>>
      [] t = "xsd:string"  -> <<XsdNs, <<"s", "t", "r">>>>
      [] t = "xsd:date"    -> <<XsdNs, <<"d", "a", "t", "e">>>>
      [] t = "aws-ontology" -> <<AwsNs>>
      [] OTHER             -> <<AwsNs, <<"x">>>>

UpperChars == {"E", "B", "V"}
LowerChars == {"e", "h", "r", "c", "u", "s", "p", "x", "f", "a", "d", "t", "m"}

\* str(uri).split('#')[-1]
LocalName(t) == UriText(t)[Len(UriText(t))]

\* graph.subjects(predicate, object) and graph.objects(subject, predicate)
GraphSubjects(g, p, o) == {t[1] : t \in {u \in g : u[2] = p /\ u[3] = o}}
GraphObjects(g, s, p) == {t[3] : t \in {u \in g : u[1] = s /\ u[2] = p}}

\* any(self.graph.triples((s, p, None)))
HasAny(g, s, p) == \E t \in g : t[1] = s /\ t[2] = p

Report(rule, outcome, assertion, flagged) ==
    [rule |-> rule, outcome |-> outcome, assertion |-> assertion, flagged |-> flagged]

Pass(rule) == Report(rule, "pass", "none", {})
Fail(rule, assertion, flagged) == Report(rule, "fail", assertion, flagged)

NoReport == Report("none", "none", "none", {})

----------------------------------------------------------------------------
(* tests/test_ontology_quality.py: the rules.  A rule is a unittest method: it
   ends at its first failing assertion. *)

\* Line 57: assertGreater(len(classes), 20)
MinClasses == 20

\* test_class_consistency, lines 52-79.  `extra` counts the classes of the
\* ontology that carry a label and a comment and are not listed in g.
MutClassConsistencyChecksLabelTwice(g, extra) ==
    LET classes == GraphSubjects(g, "rdf:type", "owl:Class")
        missing_labels == {c \in classes : ~HasAny(g, c, "rdfs:label")}
    IN  IF ~(Cardinality(classes) + extra > MinClasses)
        THEN Fail("class_consistency", "class_count", {})
        ELSE IF Cardinality(missing_labels) # 0
        THEN Fail("class_consistency", "missing_labels", missing_labels)
        ELSE Pass("class_consistency")
test_class_consistency(g, extra) ==
    LET classes == GraphSubjects(g, "rdf:type", "owl:Class")
        missing_labels == {c \in classes : ~HasAny(g, c, "rdfs:label")}
        missing_comments == {c \in classes : ~HasAny(g, c, "rdfs:comment")}
    IN  IF ~(Cardinality(classes) + extra > MinClasses)
        THEN Fail("class_consistency", "class_count", {})
        ELSE IF Cardinality(missing_labels) # 0
        THEN Fail("class_consistency", "missing_labels", missing_labels)
        ELSE IF Cardinality(missing_comments) # 0
        THEN Fail("class_consistency", "missing_comments", missing_comments)
        ELSE Pass("class_consistency")

\* test_ontology_metadata, lines 30-50
test_ontology_metadata(g) ==
    IF <<"aws-ontology", "rdf:type", "owl:Ontology">> \notin g
    THEN Fail("ontology_metadata", "declaration", {"aws-ontology"})
    ELSE IF ~HasAny(g, "aws-ontology", "rdfs:label")
    THEN Fail("ontology_metadata", "rdfs:label", {"aws-ontology"})
    ELSE IF ~HasAny(g, "aws-ontology", "rdfs:comment")
    THEN Fail("ontology_metadata", "rdfs:comment", {"aws-ontology"})
    ELSE IF ~HasAny(g, "aws-ontology", "owl:versionInfo")
    THEN Fail("ontology_metadata", "owl:versionInfo", {"aws-ontology"})
    ELSE Pass("ontology_metadata")

\* Lines 126-132: the local names the domain/range rule skips (those of the
\* source's lists that name a property of the model's vocabulary).
ExemptNames == {LocalName(t) : t \in {"uses", "contains", "containedBy", "regionOf"}}

\* test_domain_range_consistency, lines 114-139.  The assertion sits inside the
\* loop over the object properties, whose order is the store's: the method ends
\* at the first property it meets that has neither a domain nor a range.
test_domain_range_consistency(g) ==
    LET obj_props == GraphSubjects(g, "rdf:type", "owl:ObjectProperty")
        failing == {p \in obj_props :
                        /\ LocalName(p) \notin ExemptNames
                        /\ ~(Cardinality(GraphObjects(g, p, "rdfs:domain")) > 0
                             \/ Cardinality(GraphObjects(g, p, "rdfs:range")) > 0)}
    IN  IF failing = {}
        THEN {Pass("domain_range_consistency")}
        ELSE {Fail("domain_range_consistency", "neither", {p}) : p \in failing}

\* Lines 179-190: the fixed list of pairs, in the order of the source (the
\* first and the third pair of the ten stand for the list).
expected_inverses == <<<<"hasRegion", "regionOf">>, <<"contains", "containedBy">>>>

\* Lines 194-197: one pair's test.
MutInverseDeclaredBothWays(g, pair) ==
    /\ <<pair[1], "owl:inverseOf", pair[2]>> \in g
    /\ <<pair[2], "owl:inverseOf", pair[1]>> \in g
inverse_declared(g, pair) ==
    \/ <<pair[1], "owl:inverseOf", pair[2]>> \in g
    \/ <<pair[2], "owl:inverseOf", pair[1]>> \in g

\* test_inverse_properties, lines 176-202: the assertion sits inside the loop
\* over the list, so the first pair without a declaration ends the method.
test_inverse_properties(g) ==
    LET undeclared == {i \in DOMAIN expected_inverses :
                            ~inverse_declared(g, expected_inverses[i])}
    IN  IF undeclared = {}
        THEN Pass("inverse_properties")
        ELSE LET i == CHOOSE j \in undeclared : \A k \in undeclared : j <= k
             IN  Fail("inverse_properties", "inverse_declared",
                      {expected_inverses[i][1], expected_inverses[i][2]})

\* str.isupper() and str.islower() of a single character
isupper(ch) == ch \in UpperChars
islower(ch) == ch \in LowerChars

\* test_naming_conventions, lines 412-434: first the loop over the classes, then
\* the loop over the properties; a resource with an empty local name is skipped.
MutNamingChecksEmptyNames(g) ==
    LET classes == GraphSubjects(g, "rdf:type", "owl:Class")
        properties == GraphSubjects(g, "rdf:type", "owl:ObjectProperty")
                      \cup GraphSubjects(g, "rdf:type", "owl:DatatypeProperty")
        bad_classes == {c \in classes :
                            LocalName(c) = <<>> \/ ~isupper(LocalName(c)[1])}
        bad_props == {q \in properties :
                            LocalName(q) = <<>> \/ ~islower(LocalName(q)[1])}
    IN  IF bad_classes # {}
        THEN {Fail("naming_conventions", "class_uppercase", {c}) : c \in bad_classes}
        ELSE IF bad_props # {}
        THEN {Fail("naming_conventions", "property_lowercase", {q}) : q \in bad_props}
        ELSE {Pass("naming_conventions")}
test_naming_conventions(g) ==
    LET classes == GraphSubjects(g, "rdf:type", "owl:Class")
        properties == GraphSubjects(g, "rdf:type", "owl:ObjectProperty")
                      \cup GraphSubjects(g, "rdf:type", "owl:DatatypeProperty")
        bad_classes == {c \in classes :
                            LocalName(c) # <<>> /\ ~isupper(LocalName(c)[1])}
        bad_props == {q \in properties :
                            LocalName(q) # <<>> /\ ~islower(LocalName(q)[1])}
    IN  IF bad_classes # {}
        THEN {Fail("naming_conventions", "class_uppercase", {c}) : c \in bad_classes}
        ELSE IF bad_props # {}
        THEN {Fail("naming_conventions", "property_lowercase", {q}) : q \in bad_props}
        ELSE {Pass("naming_conventions")}

\* Lines 454-457: the XSD types a data property may have as its range (of the
\* model's vocabulary, xsd:string is one of them and xsd:date is not).
valid_types == {"xsd:string"}

\* str(range_val).startswith(str(XSD))
IsXsd(t) == Len(UriText(t)) > 1 /\ UriText(t)[1] = XsdNs

\* test_data_property_ranges, lines 436-461: per data property, a range is
\* required unless the name is 'path', and every XSD range must be a valid type.
MutDataRangesIgnoreNamespace(g) ==
    LET data_props == GraphSubjects(g, "rdf:type", "owl:DatatypeProperty")
        ranges(q) == GraphObjects(g, q, "rdfs:range")
        no_range == {q \in data_props :
                        LocalName(q) # LocalName("path") /\ ~(Cardinality(ranges(q)) > 0)}
        bad_range == UNION {{r \in ranges(q) : r \notin valid_types}
                            : q \in data_props \ no_range}
    IN  IF no_range = {} /\ bad_range = {}
        THEN {Pass("data_property_ranges")}
        ELSE {Fail("data_property_ranges", "has_range", {q}) : q \in no_range}
             \cup {Fail("data_property_ranges", "valid_type", {r}) : r \in bad_range}
test_data_property_ranges(g) ==
    LET data_props == GraphSubjects(g, "rdf:type", "owl:DatatypeProperty")
        ranges(q) == GraphObjects(g, q, "rdfs:range")
        no_range == {q \in data_props :
                        LocalName(q) # LocalName("path") /\ ~(Cardinality(ranges(q)) > 0)}
        bad_range == UNION {{r \in ranges(q) : IsXsd(r) /\ r \notin valid_types}
                            : q \in data_props \ no_range}
    IN  IF no_range = {} /\ bad_range = {}
        THEN {Pass("data_property_ranges")}
        ELSE {Fail("data_property_ranges", "has_range", {q}) : q \in no_range}
             \cup {Fail("data_property_ranges", "valid_type", {r}) : r \in bad_range}

\* test_owl_dl_compliance, lines 388-410: the class/individual overlap is
\* asserted empty first, then the object/data property overlap.
MutDlComplianceClassesOnly(g) ==
    LET classes == GraphSubjects(g, "rdf:type", "owl:Class")
        individuals == GraphSubjects(g, "rdf:type", "owl:NamedIndividual")
        overlap == classes \cap individuals
    IN  IF Cardinality(overlap) # 0
        THEN Fail("owl_dl_compliance", "overlap", overlap)
        ELSE Pass("owl_dl_compliance")
test_owl_dl_compliance(g) ==
    LET classes == GraphSubjects(g, "rdf:type", "owl:Class")
        individuals == GraphSubjects(g, "rdf:type", "owl:NamedIndividual")
        overlap == classes \cap individuals
        obj_props == GraphSubjects(g, "rdf:type", "owl:ObjectProperty")
        data_props == GraphSubjects(g, "rdf:type", "owl:DatatypeProperty")
        prop_overlap == obj_props \cap data_props
    IN  IF Cardinality(overlap) # 0
        THEN Fail("owl_dl_compliance", "overlap", overlap)
        ELSE IF Cardinality(prop_overlap) # 0
        THEN Fail("owl_dl_compliance", "prop_overlap", prop_overlap)
        ELSE Pass("owl_dl_compliance")

\* Lines 485-488: the six cardinality predicates.
cardinality_props ==
    {"owl:cardinality", "owl:minCardinality", "owl:maxCardinality",
     "owl:qualifiedCardinality", "owl:minQualifiedCardinality",
     "owl:maxQualifiedCardinality"}

\* _is_cardinality_restriction, lines 475-490; (s, p, None) in graph holds when
\* the graph has any triple with that subject and predicate.
MutIsCardinalityRestrictionAnyProperty(g, restriction, on_property) ==
    IF ~(<<restriction, "rdf:type", "owl:Restriction">> \in g)
    THEN FALSE
    ELSE \E prop \in cardinality_props : HasAny(g, restriction, prop)
is_cardinality_restriction(g, restriction, on_property) ==
    IF ~(<<restriction, "rdf:type", "owl:Restriction">> \in g)
    THEN FALSE
    ELSE IF ~(<<restriction, "owl:onProperty", on_property>> \in g)
    THEN FALSE
    ELSE \E prop \in cardinality_props : HasAny(g, restriction, prop)

\* What a call of the helper returned, with its two arguments.
Returned(value, restriction, on_property) ==
    Report("is_cardinality_restriction", IF value THEN "true" ELSE "false",
           on_property, {restriction})

----------------------------------------------------------------------------
(* tests/test_format_sync.py: test_version_consistency *)

\* str(literal): the lexical form, without language tag
Lexical(v) == IF v = "v1@en" THEN "v1" ELSE v

\* Lines 107-116: the solutions of the query, one row per pair of an ontology
\* resource and one of its owl:versionInfo values (SELECT without DISTINCT).
version_query(g) ==
    {<<t[1], t[3]>> : t \in {u \in g : /\ u[2] = "owl:versionInfo"
                                       /\ <<u[1], "rdf:type", "owl:Ontology">> \in g}}

\* test_version_consistency, lines 98-133
MutVersionCountsOnly(owl_graph, ttl_graph) ==
    LET owl_versions == version_query(owl_graph)
        ttl_versions == version_query(ttl_graph)
    IN  IF Cardinality(owl_versions) # 1
        THEN Fail("version_consistency", "owl_count", {})
        ELSE IF Cardinality(ttl_versions) # 1
        THEN Fail("version_consistency", "ttl_count", {})
        ELSE Pass("version_consistency")
test_version_consistency(owl_graph, ttl_graph) ==
    LET owl_versions == version_query(owl_graph)
        ttl_versions == version_query(ttl_graph)
    IN  IF Cardinality(owl_versions) # 1
        THEN Fail("version_consistency", "owl_count", {})
        ELSE IF Cardinality(ttl_versions) # 1
        THEN Fail("version_consistency", "ttl_count", {})
        ELSE IF Lexical((CHOOSE r \in owl_versions : TRUE)[2])
                    # Lexical((CHOOSE r \in ttl_versions : TRUE)[2])
        THEN Fail("version_consistency", "mismatch", {})
        ELSE Pass("version_consistency")

----------------------------------------------------------------------------
(* tests/base_test.py: the fixture *)

\* What load_examples_graph gets from the examples file: None, or its graph.
ExampleOutcomes ==
    {[kind |-> "none", g |-> {}],
     [kind |-> "graph", g |-> {}],
     [kind |-> "graph", g |-> {<<"bucket1", "rdf:type", "Bucket">>}]}

\* load_combined_graph, lines 55-63, on a fixture without combined_graph: the
\* new Graph() takes the triples of self.graph and then those of the examples.
\* The result gives self.graph and self.combined_graph after the call, and
\* whether assertIsNotNone of load_examples_graph failed.
MutCombinedAliasesGraph(g, examples) ==
    IF examples.kind = "none"
    THEN [graph |-> g, combined |-> g, failed |-> TRUE]
    ELSE [graph |-> g \cup examples.g, combined |-> g \cup examples.g, failed |-> FALSE]
load_combined_graph(g, examples) ==
    IF examples.kind = "none"
    THEN [graph |-> g, combined |-> {} \cup g, failed |-> TRUE]
    ELSE [graph |-> g, combined |-> ({} \cup g) \cup examples.g, failed |-> FALSE]

NoCombined == [set |-> FALSE, g |-> {}]

CheckVarsIdle ==
    /\ ograph = {}
    /\ ograph2 = {}
    /\ extraClasses = 0
    /\ combined = NoCombined
    /\ report = NoReport

----------------------------------------------------------------------------
(* The test methods as steps on one fixture *)

TestOntologyMetadata ==
    /\ report' = test_ontology_metadata(ograph)
    /\ UNCHANGED <<ograph, ograph2, extraClasses, combined>>

TestClassConsistency ==
    /\ report' = test_class_consistency(ograph, extraClasses)
    /\ UNCHANGED <<ograph, ograph2, extraClasses, combined>>

TestDomainRangeConsistency ==
    /\ report' \in test_domain_range_consistency(ograph)
    /\ UNCHANGED <<ograph, ograph2, extraClasses, combined>>

TestInverseProperties ==
    /\ report' = test_inverse_properties(ograph)
    /\ UNCHANGED <<ograph, ograph2, extraClasses, combined>>

TestNamingConventions ==
    /\ report' \in test_naming_conventions(ograph)
    /\ UNCHANGED <<ograph, ograph2, extraClasses, combined>>

TestDataPropertyRanges ==
    /\ report' \in test_data_property_ranges(ograph)
    /\ UNCHANGED <<ograph, ograph2, extraClasses, combined>>

TestOwlDlCompliance ==
    /\ report' = test_owl_dl_compliance(ograph)
    /\ UNCHANGED <<ograph, ograph2, extraClasses, combined>>

\* A test calls self._is_cardinality_restriction(restriction, on_property).
CallIsCardinalityRestriction(restriction, on_property) ==
    /\ report' = Returned(is_cardinality_restriction(ograph, restriction, on_property),
                          restriction, on_property)
    /\ UNCHANGED <<ograph, ograph2, extraClasses, combined>>

\* The two graphs are parsed from the OWL and the Turtle file inside the method.
TestVersionConsistency ==
    /\ report' = test_version_consistency(ograph2, ograph)
    /\ UNCHANGED <<ograph, ograph2, extraClasses, combined>>

\* A test asks for the combined graph; `if not hasattr(self, 'combined_graph')`.
LoadCombinedGraph(examples) ==
    /\ IF combined.set
       THEN UNCHANGED <<ograph, combined, report>>
       ELSE LET r == load_combined_graph(ograph, examples)
            IN  /\ ograph' = r.graph
                /\ combined' = [set |-> TRUE, g |-> r.combined]
                /\ report' = IF r.failed
                             THEN Fail("load_examples_graph", "examples_loaded", {})
                             ELSE report
    /\ UNCHANGED <<ograph2, extraClasses>>

----------------------------------------------------------------------------
(* Python dictionaries: functions whose domain is the set of keys *)

EmptyDict == <<>>

\* d.update(c): the keys of c replace or extend those of d, one level deep.
DictUpdate(d, c) ==
    [k \in DOMAIN d \cup DOMAIN c |-> IF k \in DOMAIN c THEN c[k] ELSE d[k]]

----------------------------------------------------------------------------
(* automation/schedule_monitoring.py: OntologyScheduler *)

\* Lines 44-68
default_config ==
    [notifications |-> [enabled        |-> FALSE,
                        smtp_server    |-> "smtp.gmail.com",
                        smtp_port      |-> 587,
                        email_from     |-> "",
                        email_to       |-> <<>>,
                        email_password |-> ""],
     schedules     |-> [daily_monitoring      |-> "09:00",
                        weekly_report         |-> "Monday 08:00",
                        monthly_quality_check |-> "1st 07:00",
                        quarterly_review      |-> "1st of quarter 06:00"],
     thresholds    |-> [high_priority_notify           |-> TRUE,
                        test_failure_notify            |-> TRUE,
                        performance_degradation_notify |-> TRUE],
     output_dirs   |-> [reports |-> "automation/reports",
                        logs    |-> "automation/logs"]]

\* _load_config, lines 42-79: a file that exists and parses is merged into the
\* defaults with dict.update; otherwise the defaults are returned.
load_config(file) ==
    IF file.kind = "json"
    THEN DictUpdate(default_config, file.data)
    ELSE default_config

\* What one call of _send_notification did.
Sent(exc, smtp, sent, log) == [exc |-> exc, smtp |-> smtp, sent |-> sent, log |-> log]

\* The outcomes of the mail server: the mail goes out, SMTP() cannot connect, or
\* the connection is made and login or sendmail fails.
SmtpOutcomes == {"sent", "connect_failed", "login_failed"}

\* _send_notification, lines 288-336.  The test of notifications.enabled stands
\* before the try block; every later statement is inside it.
MutSendNotificationAlways(cfg, o) ==
    IF "enabled" \notin DOMAIN cfg["notifications"]
    THEN Sent("KeyError", FALSE, FALSE, "none")
    ELSE IF {"email_from", "email_to", "smtp_server", "smtp_port"}
                \ DOMAIN cfg["notifications"] # {}
    THEN Sent("none", FALSE, FALSE, "send_failed")
    ELSE IF o = "connect_failed"
    THEN Sent("none", TRUE, FALSE, "send_failed")
    ELSE IF "email_password" \notin DOMAIN cfg["notifications"] \/ o = "login_failed"
    THEN Sent("none", TRUE, FALSE, "send_failed")
    ELSE Sent("none", TRUE, TRUE, "sent")
send_notification(cfg, o) ==
    IF "enabled" \notin DOMAIN cfg["notifications"]
    THEN Sent("KeyError", FALSE, FALSE, "none")
    ELSE IF ~cfg["notifications"]["enabled"]
    THEN Sent("none", FALSE, FALSE, "not_sent")
    ELSE IF {"email_from", "email_to", "smtp_server", "smtp_port"}
                \ DOMAIN cfg["notifications"] # {}
    THEN Sent("none", FALSE, FALSE, "send_failed")
    ELSE IF o = "connect_failed"
    THEN Sent("none", TRUE, FALSE, "send_failed")
    ELSE IF "email_password" \notin DOMAIN cfg["notifications"] \/ o = "login_failed"
    THEN Sent("none", TRUE, FALSE, "send_failed")
    ELSE Sent("none", TRUE, TRUE, "sent")

\* What one task did: whether an exception left it, whether it opened an SMTP
\* connection or sent a mail, and what its notifications logged.
Did(name, escaped, notes) ==
    [task    |-> name,
     escaped |-> escaped,
     smtp    |-> \E n \in notes : n.smtp,
     sent    |-> \E n \in notes : n.sent,
     logs    |-> {n.log : n \in notes},
     calls   |-> notes # {}]

\* What the try block of a task did: whether it raised, and the notifications
\* it made before.
Body(raised, notes) == [raised |-> raised, notes |-> notes]

\* A statement `self._send_notification(...)` inside a try block.
Notify(cfg, o) ==
    Body(send_notification(cfg, o).exc # "none", {send_notification(cfg, o)})

\* daily_monitoring, lines 99-152.  proc is the subprocess (returncode 0, another
\* returncode, or an exception such as TimeoutExpired); rep is the report file.
\* The except block logs the error and calls _send_notification itself.
daily_monitoring(cfg, proc, rep, o) ==
    LET body ==
            IF "reports" \notin DOMAIN cfg["output_dirs"] \/ proc = "raised"
            THEN Body(TRUE, {})
            ELSE IF proc = "failed"
            THEN Notify(cfg, o)
            ELSE IF rep \in {"missing", "quiet"}
            THEN Body(FALSE, {})
            ELSE IF rep = "unreadable"
            THEN Body(TRUE, {})
            ELSE IF "high_priority_notify" \notin DOMAIN cfg["thresholds"]
            THEN Body(TRUE, {})
            ELSE IF cfg["thresholds"]["high_priority_notify"]
            THEN Notify(cfg, o)
            ELSE Body(FALSE, {})
    IN  IF body.raised
        THEN Did("daily", send_notification(cfg, o).exc # "none",
                 body.notes \cup {send_notification(cfg, o)})
        ELSE Did("daily", FALSE, body.notes)

\* weekly_report, lines 154-191: the report is always mailed when the
\* subprocess succeeded; the except block only logs.
weekly_report(cfg, proc, o) ==
    LET body ==
            IF "reports" \notin DOMAIN cfg["output_dirs"] \/ proc = "raised"
            THEN Body(TRUE, {})
            ELSE IF proc = "ok"
            THEN Notify(cfg, o)
            ELSE Body(FALSE, {})
    IN  Did("weekly", FALSE, body.notes)

\* monthly_quality_check, lines 193-249: proc is "ok" when both make targets
\* passed, "failed" when one did not, "raised" when a subprocess or the write of
\* the report raised.
monthly_quality_check(cfg, proc, o) ==
    LET body ==
            IF "reports" \notin DOMAIN cfg["output_dirs"] \/ proc = "raised"
            THEN Body(TRUE, {})
            ELSE IF proc = "failed"
            THEN IF "test_failure_notify" \notin DOMAIN cfg["thresholds"]
                 THEN Body(TRUE, {})
                 ELSE IF cfg["thresholds"]["test_failure_notify"]
                 THEN Notify(cfg, o)
                 ELSE Body(FALSE, {})
            ELSE Notify(cfg, o)
    IN  Did("monthly", FALSE, body.notes)

\* quarterly_review, lines 251-286: proc is "raised" when the write of the
\* review file raised.
quarterly_review(cfg, proc, o) ==
    LET body ==
            IF "reports" \notin DOMAIN cfg["output_dirs"] \/ proc = "raised"
            THEN Body(TRUE, {})
            ELSE Notify(cfg, o)
    IN  Did("quarterly", FALSE, body.notes)

\* run_once, lines 377-391: task_map
task_map(task, cfg, proc, rep, o) ==
    CASE task = "daily"     -> daily_monitoring(cfg, proc, rep, o)
      [] task = "weekly"    -> weekly_report(cfg, proc, o)
      [] task = "monthly"   -> monthly_quality_check(cfg, proc, o)
      [] task = "quarterly" -> quarterly_review(cfg, proc, o)

Tasks == {"daily", "weekly", "monthly", "quarterly"}
ProcOutcomes == {"ok", "failed", "raised"}
ReportFiles == {"missing", "unreadable", "quiet", "high"}

\* run_daemon, lines 363-375: schedule.run_pending() runs a due task inside the
\* try block that encloses the loop, so an exception that leaves a task is
\* logged by `except Exception` and the loop is over.
RunPending(task, proc, rep, o) ==
    /\ daemon = "running"
    /\ LET d == task_map(task, config, proc, rep, o)
       IN  /\ last' = d
           /\ smtpEver' = (smtpEver \/ d.smtp)
           /\ daemon' = IF d.escaped THEN "stopped" ELSE "running"
    /\ UNCHANGED <<cfile, config>>

\* Ctrl-C while the daemon sleeps.
DaemonInterrupt ==
    /\ daemon = "running"
    /\ daemon' = "interrupted"
    /\ UNCHANGED <<cfile, config, last, smtpEver>>

NoTask == [task |-> "none", escaped |-> FALSE, smtp |-> FALSE, sent |-> FALSE,
           logs |-> {}, calls |-> FALSE]

\* The notifications sections a configuration file may give: some keys only, or
\* all of them.
NotificationSections ==
    LET partial == {EmptyDict, [smtp_port |-> 25], [enabled |-> TRUE], [enabled |-> FALSE]}
    IN  partial \cup {DictUpdate(default_config["notifications"], q) : q \in partial}

ThresholdSections ==
    {[high_priority_notify |-> FALSE],
     DictUpdate(default_config["thresholds"], [test_failure_notify |-> FALSE])}

\* The JSON objects of the configuration files.
CustomConfigs ==
    {EmptyDict}
    \cup {[notifications |-> n] : n \in NotificationSections}
    \cup {[thresholds |-> t] : t \in ThresholdSections}
    \cup {[notifications |-> n, thresholds |-> t] :
              n \in NotificationSections, t \in ThresholdSections}

ConfigFiles ==
    {[kind |-> "missing", data |-> EmptyDict], [kind |-> "garbage", data |-> EmptyDict]}
    \cup {[kind |-> "json", data |-> c] : c \in CustomConfigs}

SchedVarsIdle ==
    /\ cfile = [kind |-> "missing", data |-> EmptyDict]
    /\ config = EmptyDict
    /\ daemon = "idle"
    /\ last = NoTask
    /\ smtpEver = FALSE

----------------------------------------------------------------------------
(* tools/monitor_aws_changes.py: AWSChangeMonitor *)

\* _get_cf_resource_types, lines 317-333
sample_resources ==
    {"AWS::EC2::Instance", "AWS::S3::Bucket", "AWS::IAM::Role", "AWS::IAM::Policy",
     "AWS::Lambda::Function", "AWS::RDS::DBInstance", "AWS::DynamoDB::Table"}

get_cf_resource_types == sample_resources

\* The cache file: absent, not a JSON object, or a JSON object whose
\* 'resources' list (empty when the key is missing) is given as a set.
CacheFile(kind, resources) == [kind |-> kind, resources |-> resources]

\* monitor_cloudformation_resources, lines 89-130: the comparison is made when
\* it is asked for and the cache file exists, an exception while reading the
\* cache is caught, and the cache is then written with the current list.
MutMonitorKeepsCache(c, compare_with_cache) ==
    LET current_resources == get_cf_resource_types
    IN  [new_resources |->
            IF compare_with_cache /\ c.kind = "json"
            THEN current_resources \ c.resources
            ELSE {},
         total_resources |-> Cardinality(current_resources),
         cache |-> IF c.kind = "absent"
                   THEN CacheFile("json", current_resources)
                   ELSE c]
monitor_cloudformation_resources(c, compare_with_cache) ==
    LET current_resources == get_cf_resource_types
    IN  [new_resources |->
            IF compare_with_cache /\ c.kind # "absent"
            THEN IF c.kind = "json"
                 THEN current_resources \ c.resources
                 ELSE {}
            ELSE {},
         total_resources |-> Cardinality(current_resources),
         cache |-> CacheFile("json", current_resources)]

\* main, lines 362-373: the result becomes one change when it names new resources.
cf_change(cf_result) ==
    IF cf_result.new_resources # {}
    THEN {[source |-> "cloudformation", new_resources |-> cf_result.new_resources]}
    ELSE {}

NoCall == [called |-> FALSE, compare |-> FALSE, before |-> CacheFile("absent", {}),
           new |-> {}, changes |-> {}, repeat |-> FALSE]

\* main with --source cloudformation, with or without --compare.
MonitorCloudFormation(compare) ==
    LET r == monitor_cloudformation_resources(cache, compare)
    IN  /\ cache' = r.cache
        /\ mresult' = [called  |-> TRUE,
                       compare |-> compare,
                       before  |-> cache,
                       new     |-> r.new_resources,
                       changes |-> cf_change(r),
                       repeat  |-> mresult.called]

\* The caches earlier runs or the user may have left: any part of the current
\* list, with or without a type that is no longer listed.
CacheFiles ==
    {CacheFile("absent", {}), CacheFile("garbage", {})}
    \cup {CacheFile("json", rs) : rs \in SUBSET (sample_resources \cup {"AWS::SQS::Queue"})}

MonVarsIdle ==
    /\ cache = CacheFile("absent", {})
    /\ mresult = NoCall

----------------------------------------------------------------------------
(* utils/config_validation.py: AppConfig *)

\* The dataclasses with their field defaults, lines 14-22, 41-47, 80-87,
\* 107-113 and 135-141.  An instance carries its class.
NotificationConfig(enabled, smtp_server, smtp_port, email_from, email_to, email_password) ==
    [class |-> "NotificationConfig", enabled |-> enabled, smtp_server |-> smtp_server,
     smtp_port |-> smtp_port, email_from |-> email_from, email_to |-> email_to,
     email_password |-> email_password]

ScheduleConfig(daily, weekly, monthly, quarterly) ==
    [class |-> "ScheduleConfig", daily_monitoring |-> daily,
     weekly_report |-> weekly, monthly_quality_check |-> monthly,
     quarterly_review |-> quarterly]

DatabaseConfig(host, username, password, database, timeout) ==
    [class |-> "DatabaseConfig", host |-> host, username |-> username,
     password |-> password, database |-> database, timeout |-> timeout]

MonitoringConfig(interval_hours, log_level, log_dir, max_log_files) ==
    [class |-> "MonitoringConfig", interval_hours |-> interval_hours,
     log_level |-> log_level, log_dir |-> log_dir, max_log_files |-> max_log_files]

AppConfig(notifications, schedules, database, monitoring) ==
    [class |-> "AppConfig", notifications |-> notifications, schedules |-> schedules,
     database |-> database, monitoring |-> monitoring]

\* The instances the constructors build without arguments.
NotificationConfigDefault == NotificationConfig(FALSE, "smtp.gmail.com", 587, "", <<>>, "")
ScheduleConfigDefault == ScheduleConfig("09:00", "08:00", "07:00", "06:00")
DatabaseConfigDefault == DatabaseConfig("http://localhost:8529", "root", "", "aws_ontology", 30)
MonitoringConfigDefault == MonitoringConfig(24, "INFO", "automation/logs", 30)
AppConfigDefault ==
    AppConfig(NotificationConfigDefault, ScheduleConfigDefault,
              DatabaseConfigDefault, MonitoringConfigDefault)

\* dict.get(key, default)
Get(d, k, default) == IF k \in DOMAIN d THEN d[k] ELSE default

\* AppConfig.from_dict, lines 154-198
MutFromDictSkipsMonitoring(data) ==
    AppConfig(
        IF "notifications" \in DOMAIN data
        THEN NotificationConfig(Get(data["notifications"], "enabled", FALSE),
                                Get(data["notifications"], "smtp_server", "smtp.gmail.com"),
                                Get(data["notifications"], "smtp_port", 587),
                                Get(data["notifications"], "email_from", ""),
                                Get(data["notifications"], "email_to", <<>>),
                                Get(data["notifications"], "email_password", ""))
        ELSE AppConfigDefault["notifications"],
        IF "schedules" \in DOMAIN data
        THEN ScheduleConfig(Get(data["schedules"], "daily_monitoring", "09:00"),
                            Get(data["schedules"], "weekly_report", "08:00"),
                            Get(data["schedules"], "monthly_quality_check", "07:00"),
                            Get(data["schedules"], "quarterly_review", "06:00"))
        ELSE AppConfigDefault["schedules"],
        IF "database" \in DOMAIN data
        THEN DatabaseConfig(Get(data["database"], "host", "http://localhost:8529"),
                            Get(data["database"], "username", "root"),
                            Get(data["database"], "password", ""),
                            Get(data["database"], "database", "aws_ontology"),
                            Get(data["database"], "timeout", 30))
        ELSE AppConfigDefault["database"],
        AppConfigDefault["monitoring"])
from_dict(data) ==
    AppConfig(
        IF "notifications" \in DOMAIN data
        THEN NotificationConfig(Get(data["notifications"], "enabled", FALSE),
                                Get(data["notifications"], "smtp_server", "smtp.gmail.com"),
                                Get(data["notifications"], "smtp_port", 587),
                                Get(data["notifications"], "email_from", ""),
                                Get(data["notifications"], "email_to", <<>>),
                                Get(data["notifications"], "email_password", ""))
        ELSE AppConfigDefault["notifications"],
        IF "schedules" \in DOMAIN data
        THEN ScheduleConfig(Get(data["schedules"], "daily_monitoring", "09:00"),
                            Get(data["schedules"], "weekly_report", "08:00"),
                            Get(data["schedules"], "monthly_quality_check", "07:00"),
                            Get(data["schedules"], "quarterly_review", "06:00"))
        ELSE AppConfigDefault["schedules"],
        IF "database" \in DOMAIN data
        THEN DatabaseConfig(Get(data["database"], "host", "http://localhost:8529"),
                            Get(data["database"], "username", "root"),
                            Get(data["database"], "password", ""),
                            Get(data["database"], "database", "aws_ontology"),
                            Get(data["database"], "timeout", 30))
        ELSE AppConfigDefault["database"],
        IF "monitoring" \in DOMAIN data
        THEN MonitoringConfig(Get(data["monitoring"], "interval_hours", 24),
                              Get(data["monitoring"], "log_level", "INFO"),
                              Get(data["monitoring"], "log_dir", "automation/logs"),
                              Get(data["monitoring"], "max_log_files", 30))
        ELSE AppConfigDefault["monitoring"])

\* AppConfig.to_dict, lines 200-230
to_dict(c) ==
    [notifications |-> [enabled        |-> c["notifications"]["enabled"],
                        smtp_server    |-> c["notifications"]["smtp_server"],
                        smtp_port      |-> c["notifications"]["smtp_port"],
                        email_from     |-> c["notifications"]["email_from"],
                        email_to       |-> c["notifications"]["email_to"],
                        email_password |-> c["notifications"]["email_password"]],
     schedules     |-> [daily_monitoring      |-> c["schedules"]["daily_monitoring"],
                        weekly_report         |-> c["schedules"]["weekly_report"],
                        monthly_quality_check |-> c["schedules"]["monthly_quality_check"],
                        quarterly_review      |-> c["schedules"]["quarterly_review"]],
     database      |-> [host     |-> c["database"]["host"],
                        username |-> c["database"]["username"],
                        password |-> c["database"]["password"],
                        database |-> c["database"]["database"],
                        timeout  |-> c["database"]["timeout"]],
     monitoring    |-> [interval_hours |-> c["monitoring"]["interval_hours"],
                        log_level      |-> c["monitoring"]["log_level"],
                        log_dir        |-> c["monitoring"]["log_dir"],
                        max_log_files  |-> c["monitoring"]["max_log_files"]]]

\* The configurations the runs start from: every choice of a default or
\* another value for six fields spread over the four sections.
AppConfigs ==
    { AppConfig(NotificationConfig(enabled, "smtp.gmail.com", smtp_port, "", email_to, ""),
                ScheduleConfig(daily, "08:00", "07:00", "06:00"),
                DatabaseConfig("http://localhost:8529", "root", "", "aws_ontology", timeout),
                MonitoringConfig(24, log_level, "automation/logs", 30)) :
        enabled \in BOOLEAN, smtp_port \in {587, 25},
        email_to \in {<<>>, <<"ops@example.com">>}, daily \in {"09:00", "10:30"},
        timeout \in {30, 60}, log_level \in {"INFO", "DEBUG"} }

\* A configuration none of whose fields has its default value.
CustomAppConfig ==
    AppConfig(NotificationConfig(TRUE, "mail.example.com", 25, "bot@example.com",
                                 <<"ops@example.com">>, "secret"),
              ScheduleConfig("10:30", "11:00", "12:15", "13:45"),
              DatabaseConfig("http://db:8529", "admin", "pw", "ontology", 60),
              MonitoringConfig(12, "DEBUG", "logs", 5))

SectionNames == {"notifications", "schedules", "database", "monitoring"}
OmittedKeys == {"enabled", "email_to", "weekly_report", "timeout", "log_dir"}

\* The dictionary d without the sections secs and, in the sections left,
\* without the keys keys.
Omit(d, secs, keys) ==
    [sec \in DOMAIN d \ secs |-> [k \in DOMAIN d[sec] \ keys |-> d[sec][k]]]

\* The dictionaries handed to from_dict: a full dictionary with any
\* sections and any keys left out.
ConfigDicts ==
    { Omit(to_dict(CustomAppConfig), secs, keys) :
        secs \in SUBSET SectionNames, keys \in SUBSET OmittedKeys }

NoConversion == [op |-> "none"]

\* AppConfig.from_dict(c.to_dict())
RoundTrip ==
    /\ cresult = NoConversion
    /\ cresult' = [op |-> "round_trip", value |-> from_dict(to_dict(appcfg))]
    /\ UNCHANGED <<appcfg, cdata>>

\* AppConfig.from_dict(data)
FromDict ==
    /\ cresult = NoConversion
    /\ cresult' = [op |-> "from_dict", value |-> from_dict(cdata)]
    /\ UNCHANGED <<appcfg, cdata>>

CfgVarsIdle ==
    /\ appcfg = EmptyDict
    /\ cdata = EmptyDict
    /\ cresult = EmptyDict

ToolVarsIdle ==
    /\ SchedVarsIdle
    /\ MonVarsIdle
    /\ CfgVarsIdle

----------------------------------------------------------------------------
(* _is_subclass_of: tests/test_ontology_quality.py 463-473 *)

\* (subclass, RDFS.subClassOf, superclass) in self.graph
MutHasTripleReflexive(g, a, b) == a = b \/ <<a, b>> \in g
HasTriple(g, a, b) == <<a, b>> \in g

\* self.graph.objects(subclass, RDFS.subClassOf)
MutObjectsNone(g, a) == {}
Objects(g, a) == {b \in Nodes : <<a, b>> \in g}

NewFrame(n) == [node |-> n, phase |-> "entry", todo |-> {}]

\* A frame returns value v to its caller (or to the test, for the outermost frame).
\* The caller's loop body is `if self._is_subclass_of(...): return True`.
ReturnFromTop(v) ==
    IF Len(stack) = 1
    THEN /\ stack' = <<>>
         /\ status' = "returned"
         /\ ret' = v
    ELSE /\ stack' = [i \in 1..(Len(stack) - 1) |->
                        IF i = Len(stack) - 1 /\ v
                        THEN [stack[i] EXCEPT !.phase = "found"]
                        ELSE stack[i]]
         /\ UNCHANGED <<status, ret>>

\* The test calls self._is_subclass_of(a, b).
CallIsSubclassOf(a, b) ==
    /\ status = "idle"
    /\ status' = "running"
    /\ source' = a
    /\ target' = b
    /\ stack' = <<NewFrame(a)>>
    /\ UNCHANGED <<sgraph, ret>>

\* Line 465-466: the direct-triple test at the head of every call.
DirectCheck ==
    /\ status = "running"
    /\ stack[Len(stack)].phase = "entry"
    /\ IF HasTriple(sgraph, stack[Len(stack)].node, target)
       THEN ReturnFromTop(TRUE)
       ELSE /\ stack' = [stack EXCEPT ![Len(stack)] =
                            [node  |-> @.node,
                             phase |-> "loop",
                             todo  |-> Objects(sgraph, @.node)]]
            /\ UNCHANGED <<status, ret>>
    /\ UNCHANGED <<sgraph, source, target>>

\* Line 469-470: the loop takes the next intermediate (in the store's iteration
\* order, which the model leaves open) and recurses into it.
LoopRecurse ==
    /\ status = "running"
    /\ stack[Len(stack)].phase = "loop"
    /\ \E m \in stack[Len(stack)].todo :
          IF Len(stack) >= RecursionLimit
          THEN /\ status' = "raised"       \* RecursionError unwinds every frame
               /\ stack' = <<>>
               /\ UNCHANGED ret
          ELSE /\ stack' = Append([stack EXCEPT ![Len(stack)].todo = @ \ {m}],
                                  NewFrame(m))
               /\ UNCHANGED <<status, ret>>
    /\ UNCHANGED <<sgraph, source, target>>

\* Line 473: the loop is exhausted, return False.
LoopExhausted ==
    /\ status = "running"
    /\ stack[Len(stack)].phase = "loop"
    /\ stack[Len(stack)].todo = {}
    /\ ReturnFromTop(FALSE)
    /\ UNCHANGED <<sgraph, source, target>>

\* Line 470-471: the recursive call returned True, so this call returns True.
ReturnFound ==
    /\ status = "running"
    /\ stack[Len(stack)].phase = "found"
    /\ ReturnFromTop(TRUE)
    /\ UNCHANGED <<sgraph, source, target>>

AllEdges == Nodes \X Nodes

SubVarsIdle ==
    /\ sgraph = {}
    /\ source = 1
    /\ target = 1
    /\ stack = <<>>
    /\ status = "idle"
    /\ ret = FALSE

SubInit ==
    /\ SyncVarsIdle
    /\ LoadVarsIdle
    /\ ToolVarsIdle
    /\ CheckVarsIdle
    /\ sgraph \in {g \in SUBSET AllEdges : Cardinality(g) <= MaxEdges}
    /\ source = 1
    /\ target = 1
    /\ stack = <<>>
    /\ status = "idle"
    /\ ret = FALSE

SubNext ==
    \/ \E a \in Nodes, b \in Nodes : CallIsSubclassOf(a, b) /\ UNCHANGED <<syncVars, loadVars, checkVars, toolVars>>
    \/ DirectCheck /\ UNCHANGED <<syncVars, loadVars, checkVars, toolVars>>
    \/ LoopRecurse /\ UNCHANGED <<syncVars, loadVars, checkVars, toolVars>>
    \/ LoopExhausted /\ UNCHANGED <<syncVars, loadVars, checkVars, toolVars>>
    \/ ReturnFound /\ UNCHANGED <<syncVars, loadVars, checkVars, toolVars>>

SpecSubclass == SubInit /\ [][SubNext]_vars

----------------------------------------------------------------------------
(* The format synchronisation tool, run any number of times *)

SyncInit ==
    /\ SubVarsIdle
    /\ LoadVarsIdle
    /\ ToolVarsIdle
    /\ CheckVarsIdle
    /\ fs \in InitialFiles
    /\ fsStart = fs
    /\ pc = "shell"
    /\ run = NoRun
    /\ exit_code = 0
    /\ out = <<>>
    /\ calls = <<>>
    /\ prev = NoPrev

SyncNext ==
    \/ \E act \in ActionNames, arg \in {OwlPath, ArgPath} :
          main(act, arg) /\ UNCHANGED <<subVars, loadVars, checkVars, toolVars>>
    \/ \E act \in ActionNames, arg \in {OwlPath, ArgPath} :
          MainInterrupt(act, arg) /\ UNCHANGED <<subVars, loadVars, checkVars, toolVars>>
    \/ \E choice \in Answers : SyncAnswer(choice) /\ UNCHANGED <<subVars, loadVars, checkVars, toolVars>>
    \/ SyncAnswerEOF /\ UNCHANGED <<subVars, loadVars, checkVars, toolVars>>
    \/ SyncAnswerInterrupt /\ UNCHANGED <<subVars, loadVars, checkVars, toolVars>>
    \/ NextRun /\ UNCHANGED <<subVars, loadVars, checkVars, toolVars>>

SpecSync == SyncInit /\ [][SyncNext]_vars

----------------------------------------------------------------------------
(* The graph loader, called on any file *)

\* A caller invokes load_ontology_graph(path, format).
LoadOntologyGraph(path, fmt) ==
    /\ \E r \in load_ontology_graph(fs, path, fmt) :
          loaded' = [path |-> path, fmt |-> fmt, kind |-> r.kind, g |-> r.g]
    /\ UNCHANGED <<subVars, syncVars, checkVars, toolVars>>

LoadInit ==
    /\ SubVarsIdle
    /\ LoadVarsIdle
    /\ ToolVarsIdle
    /\ CheckVarsIdle
    /\ fs \in InitialFiles
    /\ fsStart = fs
    /\ pc = "shell"
    /\ run = NoRun
    /\ exit_code = 0
    /\ out = <<>>
    /\ calls = <<>>
    /\ prev = NoPrev

LoadNext ==
    \E path \in Paths, fmt \in {TTL_FORMAT, XML_FORMAT} : LoadOntologyGraph(path, fmt)

SpecLoader == LoadInit /\ [][LoadNext]_vars

----------------------------------------------------------------------------
(* The consistency rules, run in any order on any ontology of the families *)

ClassTriples ==
    {<<c, p[1], p[2]>> : c \in {"Bucket", "Vpc"},
                         p \in {<<"rdf:type", "owl:Class">>,
                                <<"rdfs:label", "label">>,
                                <<"rdfs:comment", "comment">>}}

ObjectPropertyTriples ==
    {<<"hasRegion", "rdf:type", "owl:ObjectProperty">>,
     <<"hasRegion", "rdfs:domain", "Bucket">>,
     <<"monitors", "rdf:type", "owl:ObjectProperty">>,
     <<"monitors", "rdfs:range", "Vpc">>,
     <<"contains", "rdf:type", "owl:ObjectProperty">>}

DataPropertyTriples ==
    {<<"size", "rdf:type", "owl:DatatypeProperty">>,
     <<"size", "rdfs:domain", "Bucket">>,
     <<"size", "rdfs:range", "xsd:string">>,
     <<"size", "rdfs:range", "xsd:date">>,
     <<"size", "rdfs:range", "Bucket">>,
     <<"path", "rdf:type", "owl:DatatypeProperty">>}

InverseTriples ==
    {<<"hasRegion", "owl:inverseOf", "regionOf">>,
     <<"regionOf", "owl:inverseOf", "hasRegion">>,
     <<"contains", "owl:inverseOf", "containedBy">>,
     <<"containedBy", "owl:inverseOf", "contains">>}

NamingTriples ==
    {<<"Ec2Instance", "rdf:type", "owl:Class">>,
     <<"Ec2Instance", "rdf:type", "owl:ObjectProperty">>,
     <<"ec2Instance", "rdf:type", "owl:Class">>,
     <<"ec2Instance", "rdf:type", "owl:ObjectProperty">>,
     <<"ec2Instance", "rdf:type", "owl:DatatypeProperty">>,
     <<"aws#", "rdf:type", "owl:Class">>,
     <<"aws#", "rdf:type", "owl:ObjectProperty">>,
     <<"2fa", "rdf:type", "owl:Class">>,
     <<"2fa", "rdf:type", "owl:DatatypeProperty">>}

DlTriples ==
    {<<"Bucket", "rdf:type", "owl:Class">>,
     <<"Bucket", "rdf:type", "owl:NamedIndividual">>,
     <<"Vpc", "rdf:type", "owl:NamedIndividual">>,
     <<"size", "rdf:type", "owl:ObjectProperty">>,
     <<"size", "rdf:type", "owl:DatatypeProperty">>}

RestrictionTriples ==
    {<<"_r", "rdf:type", "owl:Restriction">>,
     <<"_r", "owl:onProperty", "hasTrustRelationship">>,
     <<"_r", "owl:onProperty", "hasRegion">>,
     <<"_r", "owl:someValuesFrom", "Vpc">>}

\* A restriction with at most one of the cardinality predicates.
RestrictionGraphs ==
    {base \cup bound : base \in SUBSET RestrictionTriples,
                        bound \in {{}} \cup {{<<"_r", prop, "1">>} : prop \in cardinality_props}}

\* The arguments the helper is called with.
RestrictionArgs == {"_r", "Vpc"}
PropertyArgs == {"hasTrustRelationship", "hasRegion"}

MetadataTriples ==
    {<<"aws-ontology", "rdf:type", "owl:Ontology">>,
     <<"aws-ontology", "rdfs:label", "label">>,
     <<"aws-ontology", "rdfs:comment", "comment">>,
     <<"aws-ontology", "owl:versionInfo", "v1">>,
     <<"aws-ontology", "owl:versionInfo", "v2">>,
     <<"other-ontology", "rdf:type", "owl:Ontology">>,
     <<"other-ontology", "owl:versionInfo", "v1">>}

OwlMetadataTriples ==
    {<<"aws-ontology", "rdf:type", "owl:Ontology">>,
     <<"aws-ontology", "owl:versionInfo", "v1">>,
     <<"aws-ontology", "owl:versionInfo", "v1@en">>,
     <<"aws-ontology", "owl:versionInfo", "v2">>}

CheckInit ==
    /\ SubVarsIdle
    /\ SyncVarsIdle
    /\ LoadVarsIdle
    /\ ToolVarsIdle
    /\ \/ /\ ograph \in SUBSET ClassTriples
          /\ ograph2 = {}
          /\ extraClasses \in {0, MinClasses}
       \/ /\ ograph \in (SUBSET ObjectPropertyTriples) \cup (SUBSET DataPropertyTriples)
                        \cup (SUBSET InverseTriples) \cup (SUBSET NamingTriples)
                        \cup (SUBSET DlTriples) \cup RestrictionGraphs
          /\ ograph2 = {}
          /\ extraClasses = MinClasses
       \/ /\ ograph \in SUBSET MetadataTriples
          /\ ograph2 \in SUBSET OwlMetadataTriples
          /\ extraClasses = MinClasses
    /\ combined = NoCombined
    /\ report = NoReport

CheckNext ==
    \/ TestOntologyMetadata /\ UNCHANGED <<subVars, syncVars, loadVars, toolVars>>
    \/ TestClassConsistency /\ UNCHANGED <<subVars, syncVars, loadVars, toolVars>>
    \/ TestDomainRangeConsistency /\ UNCHANGED <<subVars, syncVars, loadVars, toolVars>>
    \/ TestInverseProperties /\ UNCHANGED <<subVars, syncVars, loadVars, toolVars>>
    \/ TestNamingConventions /\ UNCHANGED <<subVars, syncVars, loadVars, toolVars>>
    \/ TestDataPropertyRanges /\ UNCHANGED <<subVars, syncVars, loadVars, toolVars>>
    \/ TestVersionConsistency /\ UNCHANGED <<subVars, syncVars, loadVars, toolVars>>
    \/ TestOwlDlCompliance /\ UNCHANGED <<subVars, syncVars, loadVars, toolVars>>
    \/ \E r \in RestrictionArgs, q \in PropertyArgs :
          CallIsCardinalityRestriction(r, q) /\ UNCHANGED <<subVars, syncVars, loadVars, toolVars>>
    \/ \E ex \in ExampleOutcomes :
          LoadCombinedGraph(ex) /\ UNCHANGED <<subVars, syncVars, loadVars, toolVars>>

SpecChecker == CheckInit /\ [][CheckNext]_vars

----------------------------------------------------------------------------
(* The scheduler daemon, on any configuration file, with any task outcomes *)

SchedInit ==
    /\ SubVarsIdle
    /\ SyncVarsIdle
    /\ LoadVarsIdle
    /\ CheckVarsIdle
    /\ MonVarsIdle
    /\ CfgVarsIdle
    /\ cfile \in ConfigFiles
    /\ config = load_config(cfile)
    /\ daemon = "running"
    /\ last = NoTask
    /\ smtpEver = FALSE

SchedNext ==
    \/ \E task \in Tasks, proc \in ProcOutcomes, rep \in ReportFiles, o \in SmtpOutcomes :
          /\ RunPending(task, proc, rep, o)
          /\ UNCHANGED <<subVars, syncVars, loadVars, checkVars, monVars, cfgVars>>
    \/ DaemonInterrupt
          /\ UNCHANGED <<subVars, syncVars, loadVars, checkVars, monVars, cfgVars>>

SpecScheduler == SchedInit /\ [][SchedNext]_vars

----------------------------------------------------------------------------
(* The CloudFormation monitor, called any number of times on any cache *)

MonInit ==
    /\ SubVarsIdle
    /\ SyncVarsIdle
    /\ LoadVarsIdle
    /\ CheckVarsIdle
    /\ SchedVarsIdle
    /\ CfgVarsIdle
    /\ cache \in CacheFiles
    /\ mresult = NoCall

MonNext ==
    \E compare \in BOOLEAN :
        /\ MonitorCloudFormation(compare)
        /\ UNCHANGED <<subVars, syncVars, loadVars, checkVars, schedVars, cfgVars>>

SpecMonitor == MonInit /\ [][MonNext]_vars

----------------------------------------------------------------------------
(* The specification of the configuration conversions *)

CfgInit ==
    /\ \/ appcfg \in AppConfigs /\ cdata = to_dict(AppConfigDefault)
       \/ appcfg = AppConfigDefault /\ cdata \in ConfigDicts
    /\ cresult = NoConversion
    /\ SubVarsIdle /\ SyncVarsIdle /\ LoadVarsIdle /\ CheckVarsIdle
    /\ SchedVarsIdle /\ MonVarsIdle

CfgNext ==
    \/ RoundTrip /\ UNCHANGED <<subVars, syncVars, loadVars, checkVars, schedVars, monVars>>
    \/ FromDict /\ UNCHANGED <<subVars, syncVars, loadVars, checkVars, schedVars, monVars>>

SpecConfig == CfgInit /\ [][CfgNext]_vars


----------------------------------------------------------------------------
(* Reference relations used to state the subclass claims *)

\* b is reachable from a by a path of k >= 1 subClassOf triples.
RECURSIVE PathWithin(_, _, _, _)
PathWithin(g, a, b, k) ==
    IF k = 0 THEN FALSE
    ELSE \/ <<a, b>> \in g
         \/ \E m \in Nodes : <<a, m>> \in g /\ PathWithin(g, m, b, k - 1)

Reachable(g, a, b) == PathWithin(g, a, b, NumNodes)

Acyclic(g) == \A n \in Nodes : ~Reachable(g, n, n)

----------------------------------------------------------------------------
(* Claims about _is_subclass_of (checked under SpecSubclass) *)

\* C1: _is_subclass_of(A, B) terminates and returns a definite boolean for every
\* graph and every pair (A, B), cyclic subClassOf relations included: no call
\* ends in unbounded recursion (RecursionError) instead of a boolean.
C1_DefiniteBoolean == status # "raised"

\* C2: on a graph whose subClassOf relation is acyclic the call never raises, and
\* it returns TRUE exactly when the superclass is reachable from the subclass by
\* one or more subClassOf triples.
C2_AcyclicReachability ==
    Acyclic(sgraph) =>
        /\ status # "raised"
        /\ status = "returned" => (ret <=> Reachable(sgraph, source, target))

\* A call on an acyclic graph that returned TRUE through an intermediate class.
C2_Witness ==
    /\ status = "returned"
    /\ Acyclic(sgraph)
    /\ ret
    /\ ~HasTriple(sgraph, source, target)

\* C20 as stated: the check counts zero hops, so for a resource A without a
\* subClassOf triple to itself _is_subclass_of(A, A) returns true.
C20_ZeroHopsCount ==
    (status = "returned" /\ source = target /\ ~HasTriple(sgraph, source, source))
        => ret

\* C20 amended: the check does not count zero hops.  When no chain of one or
\* more subClassOf triples leads from A back to A, a call _is_subclass_of(A, A)
\* that returns, returns false.
C20_ZeroHopsDoNotCount ==
    (status = "returned" /\ source = target /\ ~Reachable(sgraph, source, source))
        => ~ret

\* A returned call on (A, A), where A has subclass-of edges but none back to A.
C20_Witness ==
    /\ status = "returned"
    /\ source = target
    /\ Objects(sgraph, source) # {}
    /\ ~Reachable(sgraph, source, source)
    /\ ~ret

----------------------------------------------------------------------------
(* Reference notions used to state the synchronisation claims *)

\* The two graphs are identical up to a bijection of the blank nodes.
IsoByBijection(g1, g2) == \E pi \in Perms : Rename(g1, pi) = g2

BothParse(f) == f[OwlPath].kind = "xml" /\ f[TtlPath].kind = "turtle"

SameCount(f) == Cardinality(f[OwlPath].g) = Cardinality(f[TtlPath].g)

\* The selected action succeeded, read off the values its calls returned.
Succeeded ==
    CASE run.action = "check" -> run.checked = "true"
      [] run.action \in {"ttl-to-owl", "owl-to-ttl"} -> run.converted = "true"
      [] run.action = "sync" -> run.checked = "true" \/ run.converted = "true"
      [] OTHER -> FALSE

HasMsg(m) == \E i \in DOMAIN out : out[i].msg = m

PromptCount == Cardinality({i \in DOMAIN out : out[i].msg = "prompt"})

\* The direction of the conversion the current run made.
ConvDir == IF run.action = "ttl-to-owl" \/ run.choice = "1"
           THEN "ttl-to-owl" ELSE "owl-to-ttl"
ConvSrc == IF ConvDir = "ttl-to-owl" THEN TtlPath ELSE OwlPath
ConvDst == IF ConvDir = "ttl-to-owl" THEN OwlPath ELSE TtlPath
ConvDstFmt == IF ConvDir = "ttl-to-owl" THEN "xml" ELSE "turtle"

----------------------------------------------------------------------------
(* Claims about tools/sync_formats.py (checked under SpecSync) *)

\* C3: check_sync_status returns True exactly when both files parse, the graphs
\* have the same number of triples and they are identical up to a bijection of
\* blank nodes; otherwise it returns False.
C3_CheckSyncStatus ==
    run.checked # "none" =>
        (run.checked = "true" <=>
            /\ BothParse(fsStart)
            /\ SameCount(fsStart)
            /\ IsoByBijection(fsStart[OwlPath].g, fsStart[TtlPath].g))

\* The check succeeded on two files whose graphs differ in their blank-node labels.
C3_Witness ==
    /\ pc = "exited"
    /\ run.action = "check"
    /\ run.checked = "true"
    /\ fsStart[OwlPath].g # fsStart[TtlPath].g

\* C4: when the two graphs have different triple counts, check_sync_status
\* reports the mismatch and returns False without calling the isomorphism
\* comparison at all.
C4_CountMismatchSkipsIsomorphism ==
    (run.checked # "none" /\ BothParse(fsStart) /\ ~SameCount(fsStart)) =>
        /\ run.checked = "false"
        /\ HasMsg("different_counts")
        /\ \A i \in DOMAIN calls : calls[i] # "isomorphic"

\* A finished check of two parseable files of different sizes.
C4_Witness ==
    /\ pc = "exited"
    /\ run.action = "check"
    /\ run.checked = "false"
    /\ BothParse(fsStart)
    /\ ~SameCount(fsStart)

\* C5: when the XML copy is the Turtle graph with one triple removed, `check`
\* reports a diff that names the removed triple, and exits non-zero.
C5_CheckReportsRemovedTriple ==
    ( /\ pc = "exited"
      /\ run.action = "check"
      /\ run.checked # "none"
      /\ BothParse(fsStart)
      /\ \E t \in fsStart[TtlPath].g :
            /\ t \notin fsStart[OwlPath].g
            /\ fsStart[OwlPath].g = fsStart[TtlPath].g \ {t} )
    => /\ exit_code # 0
       /\ HasMsg("triple_diff")

\* C6 as stated: the exit status is 0 exactly when the selected action succeeded
\* and 1 in every other case.
C6_ExitZeroOrOne ==
    pc = "exited" => exit_code = (IF Succeeded THEN 0 ELSE 1)

\* C6 amended: a run that is not interrupted exits 0 exactly when the selected
\* action succeeded and 1 otherwise; a run interrupted by the user exits 130.
C6_ExitStatusUnlessInterrupted ==
    pc = "exited" =>
        exit_code = (IF run.interrupted THEN 130
                     ELSE IF Succeeded THEN 0 ELSE 1)

\* A sync run that found the files out of sync, converted, and exited 0.
C6_Witness ==
    /\ pc = "exited"
    /\ run.action = "sync"
    /\ run.checked = "false"
    /\ run.converted = "true"
    /\ exit_code = 0

\* C7: `sync` checks first; when synchronized it prompts for nothing, writes no
\* file and exits 0; when out of sync it prompts once, after the check; answer 1
\* can change only the OWL file (to the TTL graph), answer 2 only the TTL file
\* (to the OWL graph), and any other answer changes no file and exits 1.
C7_SyncAction ==
    (run.action = "sync" /\ run.checked # "none") =>
        /\ Len(calls) > 0
        /\ run.checked = "true" =>
              /\ pc = "exited"
              /\ PromptCount = 0
              /\ fs = fsStart
              /\ exit_code = 0
        /\ run.checked = "false" =>
              /\ PromptCount = 1
              /\ out[2].msg = "prompt"
              /\ pc = "prompt" => fs = fsStart
              /\ (pc = "exited" /\ run.choice = "1") =>
                    /\ fs[TtlPath] = fsStart[TtlPath]
                    /\ fs[ArgPath] = fsStart[ArgPath]
                    /\ run.converted = "true" =>
                          /\ fs[OwlPath].kind = "xml"
                          /\ IsoByBijection(fs[OwlPath].g, fsStart[TtlPath].g)
                    /\ exit_code = (IF run.converted = "true" THEN 0 ELSE 1)
              /\ (pc = "exited" /\ run.choice = "2") =>
                    /\ fs[OwlPath] = fsStart[OwlPath]
                    /\ fs[ArgPath] = fsStart[ArgPath]
                    /\ run.converted = "true" =>
                          /\ fs[TtlPath].kind = "turtle"
                          /\ IsoByBijection(fs[TtlPath].g, fsStart[OwlPath].g)
                    /\ exit_code = (IF run.converted = "true" THEN 0 ELSE 1)
              /\ (pc = "exited" /\ run.choice \notin {"1", "2"}) => fs = fsStart
              /\ (pc = "exited" /\ run.choice = "other") => exit_code = 1

\* An out-of-sync pair, answer 2, and the TTL file rewritten.
C7_Witness ==
    /\ pc = "exited"
    /\ run.action = "sync"
    /\ run.checked = "false"
    /\ run.choice = "2"
    /\ run.converted = "true"
    /\ fs[TtlPath] # fsStart[TtlPath]
    /\ PromptCount = 1

C10_NoUncaughtCrash ==
    (pc = "exited" /\ ~Succeeded) =>
        /\ exit_code # 0
        /\ Len(out) > 0
        /\ ~run.crashed

\* C18: a KeyboardInterrupt raised inside the wrapped main, at the prompt or
\* before it, ends the process with exit code 130 and the cancellation message;
\* every other outcome of main is passed through as it is: its own exit status
\* 0 or 1, or the exception that left it.
C18_InterruptExits130 ==
    pc = "exited" =>
        /\ run.interrupted =>
              /\ exit_code = 130
              /\ out[Len(out)].msg = "cancelled"
              /\ ~run.crashed
        /\ ~run.interrupted =>
              /\ ~HasMsg("cancelled")
              /\ run.crashed <=> run.choice = "eof"
              /\ run.crashed => out[Len(out)].msg = "traceback"
              /\ ~run.crashed => exit_code \in {0, 1}

\* Ctrl-C at the prompt of a sync run that found the files out of sync.
C18_Witness ==
    /\ pc = "exited"
    /\ run.action = "sync"
    /\ run.checked = "false"
    /\ run.interrupted
    /\ PromptCount = 1
    /\ exit_code = 130

\* C19: the path given with --owl is the OWL file the actions work on: with
\* --owl naming another file than the default, owl-to-ttl writes the Turtle
\* file from that file's graph, and ttl-to-owl writes that file and leaves the
\* default OWL file alone.
C19_OwlOptionIsUsed ==
    (pc = "exited" /\ run.arg = ArgPath /\ run.converted = "true") =>
        /\ run.action = "owl-to-ttl" =>
              IsoByBijection(fs[TtlPath].g, fsStart[ArgPath].g)
        /\ run.action = "ttl-to-owl" =>
              /\ fs[ArgPath].kind = XML_FORMAT
              /\ IsoByBijection(fs[ArgPath].g, fsStart[TtlPath].g)
              /\ fs[OwlPath] = fsStart[OwlPath]

\* C21: when the two graphs have the same number of triples and are not
\* isomorphic, the comparison reports the triples of the two set differences
\* (at most five per direction, with the count of the rest).
C21_DifferencesReported ==
    ( /\ pc = "exited"
      /\ run.action = "check"
      /\ run.checked = "false"
      /\ BothParse(fsStart)
      /\ SameCount(fsStart)
      /\ ~IsoByBijection(fsStart[OwlPath].g, fsStart[TtlPath].g) )
    => HasMsg("triple_diff")

ConvSrcFmt == IF ConvDir = "ttl-to-owl" THEN TTL_FORMAT ELSE XML_FORMAT

\* C25: a conversion leaves its source file as it was, and when the source
\* file is missing or malformed it returns False and leaves the target file
\* as it was.
C25_ConversionFrame ==
    (pc = "exited" /\ run.converted # "none") =>
        /\ fs[ConvSrc] = fsStart[ConvSrc]
        /\ fs[ArgPath] = fsStart[ArgPath]
        /\ fsStart[ConvSrc].kind # ConvSrcFmt =>
              /\ run.converted = "false"
              /\ fs[ConvDst] = fsStart[ConvDst]

\* ttl-to-owl on a malformed Turtle file next to a well-formed OWL file.
C25_Witness ==
    /\ pc = "exited"
    /\ run.action = "ttl-to-owl"
    /\ run.converted = "false"
    /\ fsStart[TtlPath].kind = "garbage"
    /\ fs[OwlPath].kind = XML_FORMAT
    /\ fs[OwlPath].g # {}

----------------------------------------------------------------------------
(* Reference notions used to state the claims about the rules *)

Classes(g) == {t[1] : t \in {u \in g : u[2] = "rdf:type" /\ u[3] = "owl:Class"}}
ObjectProperties(g) ==
    {t[1] : t \in {u \in g : u[2] = "rdf:type" /\ u[3] = "owl:ObjectProperty"}}
DatatypeProperties(g) ==
    {t[1] : t \in {u \in g : u[2] = "rdf:type" /\ u[3] = "owl:DatatypeProperty"}}

Lacks(g, s, p) == ~\E t \in g : t[1] = s /\ t[2] = p

\* The classes that miss a label or a comment.
IncompleteClasses(g) ==
    {c \in Classes(g) : Lacks(g, c, "rdfs:label") \/ Lacks(g, c, "rdfs:comment")}

HasNeither(g, q) == Lacks(g, q, "rdfs:domain") /\ Lacks(g, q, "rdfs:range")

\* The object properties without domain and range that no exemption covers.
UnrestrictedObjectProperties(g) ==
    {q \in ObjectProperties(g) : HasNeither(g, q) /\ LocalName(q) \notin ExemptNames}

----------------------------------------------------------------------------
(* Claims about the consistency rules (checked under SpecChecker) *)

\* C11: a rule reports all violations together: the domain/range rule names
\* every object property that lacks both, and the class rule every class that
\* lacks a label or a comment.
C11_AllViolationsReported ==
    /\ report.rule = "domain_range_consistency" =>
          report.flagged = UnrestrictedObjectProperties(ograph)
    /\ (report.rule = "class_consistency" /\ report.assertion # "class_count") =>
          report.flagged = IncompleteClasses(ograph)

\* Exactly one class lacks a comment and every class has a label.
OneClassLacksComment(g) ==
    /\ \A c \in Classes(g) : ~Lacks(g, c, "rdfs:label")
    /\ Cardinality({c \in Classes(g) : Lacks(g, c, "rdfs:comment")}) = 1

EitherDirection(g, pr) ==
    <<pr[1], "owl:inverseOf", pr[2]>> \in g \/ <<pr[2], "owl:inverseOf", pr[1]>> \in g

ListedPairs == {expected_inverses[i] : i \in DOMAIN expected_inverses}

\* C13: the inverse-pairing rule passes exactly when every listed pair (P, Q)
\* has P inverseOf Q or Q inverseOf P in the graph; one direction is enough, and
\* when it fails it names a listed pair that has neither direction.
C13_InverseEitherDirection ==
    report.rule = "inverse_properties" =>
        /\ report.outcome = "pass" <=> \A pr \in ListedPairs : EitherDirection(ograph, pr)
        /\ report.outcome = "fail" =>
              \E pr \in ListedPairs : /\ ~EitherDirection(ograph, pr)
                                      /\ report.flagged = {pr[1], pr[2]}

\* The rule has passed on a graph that declares each pair in one direction only.
C13_Witness ==
    /\ report.rule = "inverse_properties"
    /\ report.outcome = "pass"
    /\ ograph = {<<"hasRegion", "owl:inverseOf", "regionOf">>,
                 <<"containedBy", "owl:inverseOf", "contains">>}

\* The local name starts with an uppercase (lowercase) letter.
StartsUpper(t) == LocalName(t) # <<>> /\ LocalName(t)[1] \in UpperChars
StartsLower(t) == LocalName(t) # <<>> /\ LocalName(t)[1] \in LowerChars

Properties(g) == ObjectProperties(g) \cup DatatypeProperties(g)

C15_FlagsOnlyUnrestricted ==
    (report.rule \in {"domain_range_consistency", "data_property_ranges"}
        /\ report.assertion # "valid_type")
    => /\ \A q \in report.flagged : HasNeither(ograph, q)
       /\ (report.rule = "domain_range_consistency" /\ report.outcome = "pass") =>
             UnrestrictedObjectProperties(ograph) = {}
       /\ (report.rule = "data_property_ranges" /\ report.outcome = "pass") =>
             \A q \in DatatypeProperties(ograph) :
                 HasNeither(ograph, q) => LocalName(q) = LocalName("path")

\* The (ontology, value) pairs of owl:versionInfo on resources typed owl:Ontology.
VersionValues(g) ==
    {pr \in {<<t[1], t[3]>> : t \in g} :
        /\ <<pr[1], "owl:versionInfo", pr[2]>> \in g
        /\ <<pr[1], "rdf:type", "owl:Ontology">> \in g}

\* C16: the version check passes exactly when each file yields exactly one
\* owl:versionInfo value on a resource typed owl:Ontology and the two values,
\* taken as the text str() gives, are equal; no value or several in either
\* file, or different texts, make it fail.
C16_VersionConsistency ==
    report.rule = "version_consistency" =>
        (report.outcome = "pass" <=>
            /\ Cardinality(VersionValues(ograph2)) = 1
            /\ Cardinality(VersionValues(ograph)) = 1
            /\ \A a \in VersionValues(ograph2), b \in VersionValues(ograph) :
                  Lexical(a[2]) = Lexical(b[2]))

\* The check has passed on two files with one version each, the Turtle file
\* declaring a second ontology resource that has no version.
C16_Witness ==
    /\ report.rule = "version_consistency"
    /\ report.outcome = "pass"
    /\ Cardinality(VersionValues(ograph)) = 1
    /\ <<"other-ontology", "rdf:type", "owl:Ontology">> \in ograph

\* C17: no rule, and no sequence of rules, changes the triples of the loaded
\* ontology graph, nor those of the second graph of the two-file comparison.
C17_GraphsUnchanged == [][ograph' = ograph /\ ograph2' = ograph2]_vars

\* A rule has failed on the fixture after the combined graph was built from
\* the ontology graph and a non-empty examples graph.
C17_Witness ==
    /\ combined.set
    /\ combined.g # ograph
    /\ ograph # {}
    /\ report.outcome = "fail"
    /\ report.rule = "ontology_metadata"

Typed(g, x, ty) == <<x, "rdf:type", ty>> \in g

\* C22: _is_cardinality_restriction(R, P) returns true exactly when R is typed
\* owl:Restriction, has owl:onProperty P and carries at least one of the six
\* cardinality predicates.
C22_CardinalityRestriction ==
    report.rule = "is_cardinality_restriction" =>
        \A r \in report.flagged :
            report.outcome = "true" <=>
                /\ Typed(ograph, r, "owl:Restriction")
                /\ <<r, "owl:onProperty", report.assertion>> \in ograph
                /\ \E t \in ograph :
                      /\ t[1] = r
                      /\ t[2] \in {"owl:cardinality", "owl:minCardinality",
                                   "owl:maxCardinality", "owl:qualifiedCardinality",
                                   "owl:minQualifiedCardinality",
                                   "owl:maxQualifiedCardinality"}

\* The helper has returned true for a restriction whose only bound is a
\* qualified minimum.
C22_Witness ==
    /\ report.rule = "is_cardinality_restriction"
    /\ report.outcome = "true"
    /\ report.assertion = "hasTrustRelationship"
    /\ <<"_r", "owl:minQualifiedCardinality", "1">> \in ograph
    /\ <<"_r", "owl:someValuesFrom", "Vpc">> \in ograph

\* The ranges of data properties that lie in the XSD namespace and are not on
\* the allow-list.
InvalidXsdRanges(g) ==
    {t[3] : t \in {u \in g : /\ u[2] = "rdfs:range"
                             /\ u[1] \in DatatypeProperties(g)
                             /\ UriText(u[3])[1] = XsdNs
                             /\ u[3] \notin valid_types}}

C24_Disjointness ==
    report.rule = "owl_dl_compliance" =>
        (report.outcome = "fail" <=>
            \E t \in ograph :
                \/ Typed(ograph, t[1], "owl:Class")
                      /\ Typed(ograph, t[1], "owl:NamedIndividual")
                \/ Typed(ograph, t[1], "owl:ObjectProperty")
                      /\ Typed(ograph, t[1], "owl:DatatypeProperty"))

\* The rule has failed on a resource that is both kinds of property, while no
\* class is an individual.
C24_Witness ==
    /\ report.rule = "owl_dl_compliance"
    /\ report.outcome = "fail"
    /\ report.flagged = {"size"}
    /\ Typed(ograph, "Bucket", "owl:Class")
    /\ Typed(ograph, "Vpc", "owl:NamedIndividual")

----------------------------------------------------------------------------
(* Claims about load_ontology_graph (checked under SpecLoader) *)

LoadedMissing == fs[loaded.path].kind = "missing"
LoadedMalformed == fs[loaded.path].kind \notin {"missing", loaded.fmt}

\* C9 as stated: the loader fails with ParseError on a malformed file and with a
\* distinct NotFoundError on a missing path.
C9_DistinctErrors ==
    loaded.kind # "not_called" =>
        /\ LoadedMalformed => loaded.kind = "ParseError"
        /\ LoadedMissing => loaded.kind = "NotFoundError"

\* C9 amended: the loader raises nothing; on a malformed file and on a missing
\* path alike it returns None, and it returns a graph only for a file that
\* parses.
C9_LoaderReturnsNone ==
    loaded.kind # "not_called" =>
        /\ (LoadedMalformed \/ LoadedMissing) => loaded.kind = "None"
        /\ loaded.kind \in {"None", "graph"}

\* The loader was called on a malformed file.
C9_Witness ==
    /\ loaded.kind = "None"
    /\ LoadedMalformed

----------------------------------------------------------------------------
(* Claims about the scheduler (checked under SpecScheduler) *)

\* The value the configuration file gives for a key, if it gives one.
FileSets(sec, k) ==
    /\ cfile.kind = "json"
    /\ sec \in DOMAIN cfile.data
    /\ k \in DOMAIN cfile.data[sec]

\* C26: the merged configuration has every key of the defaults at every level,
\* with the file's value where the file sets the key and the default elsewhere.
C26_MergeKeepsDefaults ==
    \A sec \in DOMAIN default_config :
        /\ sec \in DOMAIN config
        /\ \A k \in DOMAIN default_config[sec] :
              /\ k \in DOMAIN config[sec]
              /\ config[sec][k] = IF FileSets(sec, k)
                                  THEN cfile.data[sec][k]
                                  ELSE default_config[sec][k]

NotificationsDisabled ==
    /\ "enabled" \in DOMAIN config["notifications"]
    /\ config["notifications"]["enabled"] = FALSE

\* C28: while notifications.enabled is false no task opens an SMTP connection
\* or sends a mail, whatever the tasks and their outcomes; a notification is
\* only logged as not sent.
C28_DisabledNeverSends ==
    NotificationsDisabled =>
        /\ ~smtpEver
        /\ ~last.smtp
        /\ ~last.sent
        /\ last.logs \subseteq {"not_sent"}
        /\ last.calls => last.logs = {"not_sent"}

\* A weekly report that called _send_notification with notifications disabled
\* by a file that sets every key of the section.
C28_Witness ==
    /\ NotificationsDisabled
    /\ cfile.kind = "json"
    /\ "smtp_port" \in DOMAIN config["notifications"]
    /\ last.task = "weekly"
    /\ last.calls
    /\ last.logs = {"not_sent"}

\* C29: no exception propagates out of a task, and no failing task ends the
\* loop of run_daemon.
C29_NoTaskEscapes ==
    /\ ~last.escaped
    /\ daemon # "stopped"

----------------------------------------------------------------------------
(* Claims about the CloudFormation monitor (checked under SpecMonitor) *)

\* C27: with comparison asked for and a cache present the call reports as new
\* exactly the current resource types that the cache does not list (none when
\* the cache cannot be read); without comparison or without a cache it reports
\* none; every call leaves the cache holding the current list, so that a call
\* that follows another reports none.
C27_NewResourcesAndCache ==
    mresult.called =>
        /\ cache = CacheFile("json", sample_resources)
        /\ (mresult.compare /\ mresult.before.kind = "json") =>
              mresult.new = {x \in sample_resources : x \notin mresult.before.resources}
        /\ (~mresult.compare \/ mresult.before.kind # "json") => mresult.new = {}
        /\ mresult.repeat => mresult.new = {}
        /\ mresult.changes = {} <=> mresult.new = {}

\* A first call with comparison on a cache that lacks two of the current types
\* and lists one that is gone.
C27_Witness ==
    /\ mresult.called
    /\ mresult.compare
    /\ ~mresult.repeat
    /\ "AWS::SQS::Queue" \in mresult.before.resources
    /\ mresult.new = {"AWS::IAM::Role", "AWS::S3::Bucket"}

\* The fields of a section of an AppConfig.
FieldsOf(c, sec) == DOMAIN c[sec] \ {"class"}

\* C30: for every AppConfig c, AppConfig.from_dict(c.to_dict()) equals c
\* field for field, and from_dict gives every section and every key that
\* the dictionary leaves out the default value of its dataclass.
C30_RoundTripAndDefaults ==
    /\ cresult.op = "round_trip" => cresult.value = appcfg
    /\ cresult.op = "from_dict" =>
          /\ cresult.value["class"] = "AppConfig"
          /\ \A sec \in SectionNames :
                /\ cresult.value[sec]["class"] = AppConfigDefault[sec]["class"]
                /\ \A k \in FieldsOf(AppConfigDefault, sec) :
                      cresult.value[sec][k] =
                          IF sec \in DOMAIN cdata /\ k \in DOMAIN cdata[sec]
                          THEN cdata[sec][k]
                          ELSE AppConfigDefault[sec][k]

\* A configuration with values other than the defaults came back from the
\* round trip.
C30_Witness ==
    /\ cresult.op = "round_trip"
    /\ appcfg # AppConfigDefault
    /\ appcfg["monitoring"]["log_level"] = "DEBUG"
    /\ appcfg["notifications"]["email_to"] # <<>>


====
